---- MODULE Spec2Model ----
(***************************************************************************)
(* State-machine model of the Eufy RoboVac S1 Pro integration              *)
(* (custom_components/eufy_robovac_s1_pro): the activity classifier and    *)
(* the command handlers of RobovacVacuum (vacuum.py), the cleaning-mode    *)
(* selector of CleaningModeSelect (select.py), the broadcast listener and  *)
(* decrypt_udp of discovery.py, async_setup_entry of __init__.py, and the  *)
(* statistics parser and the battery sensor of sensor.py.                  *)
(*                                                                         *)
(* Every handler is an asyncio coroutine.  One model step is the           *)
(* synchronous code that runs from one suspension point (an await) to the  *)
(* next, so other coroutines, polls and property reads interleave exactly  *)
(* where the event loop lets them.                                         *)
(***************************************************************************)
EXTENDS Integers, Sequences, FiniteSets, TLC

VARIABLES
    data,        \* coordinator.data: the last published data-point snapshot
    was_paused,  \* RobovacVacuum._was_paused
    state,       \* the activity published for the snapshot (classifier model)
    calls,       \* the handler invocations: entry point, argument, position
    wire,        \* every async_set handed to tuya_client, in issue order
    discovery,   \* the TuyaDiscovery object and the discover() call that owns it
    setup,       \* the async_setup_entry call and the device registry it fills
    sensors,     \* what the sensor entities and the statistics parser returned
    udp          \* a broadcast on its way: plaintext, datagram, decrypted text

vars == <<data, was_paused, state, calls, wire, discovery, setup, sensors, udp>>

----------------------------------------------------------------------------
(* Bounds *)

\* Handler invocations in one behaviour; they may overlap in time.
MaxCalls == 2

Calls == 1..MaxCalls

----------------------------------------------------------------------------
(* Constants of vacuum.py *)

S1_PRO_COMMANDS ==
    [start |-> "AA==", cleaning |-> "AggO", pause |-> "AggN", return |-> "AggG"]

S1_PRO_STATUS ==
    [CLEANING |-> "BgoAEAUyAA==", PAUSED |-> "CAoAEAUyAggB", RETURNING |-> "BBAHQgA="]

\* S1_PRO_STATUS.values()
S1_PRO_STATUS_values == {S1_PRO_STATUS[k] : k \in DOMAIN S1_PRO_STATUS}

HA_TO_EUFY_FAN_SPEED_MAP ==
    [Quiet    |-> <<"gentle", "Quiet">>,
     Standard |-> <<"normal", "Standard">>,
     Turbo    |-> <<"strong", "Turbo">>,
     Maximum  |-> <<"max", "Max">>]

\* The threshold of "if isinstance(dps6, int) and dps6 >= 100".
ErrorThreshold == 100

\* The threshold of "if battery >= 95".
DockedBattery == 95

----------------------------------------------------------------------------
(* Data-point snapshots: a dict from data-point key to value.  An absent   *)
(* key is a key outside the DOMAIN.                                        *)

NoDps == [k \in {} |-> ""]

\* coordinator.data is None until a refresh has succeeded.
NoData == [present |-> FALSE, dps |-> NoDps]

Snapshot(d) == [present |-> TRUE, dps |-> d]

\* dict.get(key, default)
Get(d, k, default) == IF k \in DOMAIN d THEN d[k] ELSE default

\* Python truthiness of coordinator.data: None and {} are both falsy.
Truthy(dat) == dat.present /\ DOMAIN dat.dps # {}

\* A status value of data point 153 that is none of the three known ones
\* (one of the device's docked sub-states).
OtherStatus == "BhAJOgIQAQ=="

Opt(k, V) == {NoDps} \cup {k :> v : v \in V}

\* The values the classifier distinguishes, per data point.
Dps2Values   == BOOLEAN
Dps6Values   == {0, 1, 2, 3, ErrorThreshold - 1, ErrorThreshold}
Dps7Values   == {0, 2, 3, 4}
Dps8Values   == {DockedBattery - 1, DockedBattery}
Dps152Values == {S1_PRO_COMMANDS[k] : k \in DOMAIN S1_PRO_COMMANDS}
Dps153Values == S1_PRO_STATUS_values \cup {"", OtherStatus}

AllDps ==
    { p @@ a @@ b @@ c @@ e @@ s :
        p \in Opt("2", Dps2Values),     a \in Opt("6", Dps6Values),
        b \in Opt("7", Dps7Values),     c \in Opt("8", Dps8Values),
        e \in Opt("152", Dps152Values), s \in Opt("153", Dps153Values) }

AllData == {NoData} \cup {Snapshot(d) : d \in AllDps}

\* The snapshots a poll of the device publishes in the command model.
PollDps ==
    { NoDps,
      "153" :> S1_PRO_STATUS.CLEANING,
      "153" :> S1_PRO_STATUS.PAUSED,
      "153" :> OtherStatus,
      ("152" :> S1_PRO_COMMANDS.pause) @@ ("153" :> S1_PRO_STATUS.CLEANING),
      ("6" :> 2) @@ ("7" :> 3),
      "8" :> DockedBattery }

PollData == {Snapshot(d) : d \in PollDps}

----------------------------------------------------------------------------
(* RobovacVacuum.activity: the classifier.  It returns the activity and    *)
(* the value it leaves in _was_paused.                                     *)

Result(a, wp) == [activity |-> a, was_paused |-> wp]

\* No rung matched yet: the code falls through to the next test.
NoMatch(wp) == Result("", wp)

ErrorRung_above(dps6, wp) ==
    IF dps6 \in Int /\ dps6 > ErrorThreshold THEN Result("ERROR", wp)
    ELSE NoMatch(wp)

\* Lines 126-128: the error indicator.
ErrorRung(dps6, wp) ==
    IF dps6 \in Int /\ dps6 >= ErrorThreshold THEN Result("ERROR", wp)
    ELSE NoMatch(wp)

PrimaryRung_swapped(dps153, wp) ==
    IF dps153 = S1_PRO_STATUS.CLEANING THEN Result("PAUSED", TRUE)
    ELSE IF dps153 = S1_PRO_STATUS.PAUSED THEN Result("CLEANING", FALSE)
    ELSE IF dps153 = S1_PRO_STATUS.RETURNING THEN Result("RETURNING", FALSE)
    ELSE IF dps153 # "" /\ dps153 \notin S1_PRO_STATUS_values
         THEN Result("DOCKED", FALSE)
    ELSE NoMatch(wp)

PrimaryRung_known(dps153, wp) ==
    IF dps153 = S1_PRO_STATUS.CLEANING THEN Result("CLEANING", FALSE)
    ELSE IF dps153 = S1_PRO_STATUS.PAUSED THEN Result("PAUSED", TRUE)
    ELSE IF dps153 = S1_PRO_STATUS.RETURNING THEN Result("RETURNING", FALSE)
    ELSE NoMatch(wp)

\* Lines 130-145: the primary status, data point 153.
PrimaryRung(dps153, wp) ==
    IF dps153 = S1_PRO_STATUS.CLEANING THEN Result("CLEANING", FALSE)
    ELSE IF dps153 = S1_PRO_STATUS.PAUSED THEN Result("PAUSED", TRUE)
    ELSE IF dps153 = S1_PRO_STATUS.RETURNING THEN Result("RETURNING", FALSE)
    ELSE IF dps153 # "" /\ dps153 \notin S1_PRO_STATUS_values
         THEN Result("DOCKED", FALSE)
    ELSE NoMatch(wp)

EchoRung_noreturn(dps152, wp) ==
    IF dps152 = S1_PRO_COMMANDS.cleaning \/ dps152 = "AggO"
         THEN Result("CLEANING", FALSE)
    ELSE IF dps152 = S1_PRO_COMMANDS.pause \/ dps152 = "AggN"
         THEN Result("PAUSED", TRUE)
    ELSE NoMatch(wp)

EchoRung_memory(dps152, wp) ==
    IF dps152 = S1_PRO_COMMANDS.cleaning \/ dps152 = "AggO"
         THEN Result("CLEANING", FALSE)
    ELSE IF dps152 = S1_PRO_COMMANDS.pause \/ dps152 = "AggN"
         THEN Result("PAUSED", TRUE)
    ELSE IF dps152 = S1_PRO_COMMANDS.return \/ dps152 = "AggG"
         THEN Result("RETURNING", FALSE)
    ELSE IF wp THEN Result("PAUSED", TRUE)
    ELSE NoMatch(wp)

\* Lines 149-157: the command echo, data point 152.
EchoRung(dps152, wp) ==
    IF dps152 = S1_PRO_COMMANDS.cleaning \/ dps152 = "AggO"
         THEN Result("CLEANING", FALSE)
    ELSE IF dps152 = S1_PRO_COMMANDS.pause \/ dps152 = "AggN"
         THEN Result("PAUSED", TRUE)
    ELSE IF dps152 = S1_PRO_COMMANDS.return \/ dps152 = "AggG"
         THEN Result("RETURNING", FALSE)
    ELSE NoMatch(wp)

LegacyRung_pair(dps2, dps6, dps7, battery, wp) ==
    IF dps6 = 3 /\ dps7 = 2 THEN Result("CLEANING", FALSE)
    ELSE IF dps6 = 3 /\ dps7 = 4 THEN Result("PAUSED", TRUE)
    ELSE IF dps6 = 1 /\ dps7 = 2 THEN Result("RETURNING", FALSE)
    ELSE IF dps6 = 0 /\ dps7 = 0
         THEN IF battery >= DockedBattery THEN Result("DOCKED", wp)
                                          ELSE Result("IDLE", wp)
    ELSE IF dps2 THEN Result("IDLE", wp)
    ELSE IF battery >= DockedBattery THEN Result("DOCKED", wp)
                                     ELSE Result("IDLE", wp)

LegacyRung_above(dps2, dps6, dps7, battery, wp) ==
    IF dps6 = 2 /\ dps7 = 3 THEN Result("CLEANING", FALSE)
    ELSE IF dps6 = 3 /\ dps7 = 4 THEN Result("PAUSED", TRUE)
    ELSE IF dps6 = 1 /\ dps7 = 2 THEN Result("RETURNING", FALSE)
    ELSE IF dps6 = 0 /\ dps7 = 0
         THEN IF battery > DockedBattery THEN Result("DOCKED", wp)
                                         ELSE Result("IDLE", wp)
    ELSE IF dps2 THEN Result("IDLE", wp)
    ELSE IF battery >= DockedBattery THEN Result("DOCKED", wp)
                                     ELSE Result("IDLE", wp)

\* Lines 159-184: the legacy indicators 6 and 7, then power and battery.
LegacyRung(dps2, dps6, dps7, battery, wp) ==
    IF dps6 = 2 /\ dps7 = 3 THEN Result("CLEANING", FALSE)
    ELSE IF dps6 = 3 /\ dps7 = 4 THEN Result("PAUSED", TRUE)
    ELSE IF dps6 = 1 /\ dps7 = 2 THEN Result("RETURNING", FALSE)
    ELSE IF dps6 = 0 /\ dps7 = 0
         THEN IF battery >= DockedBattery THEN Result("DOCKED", wp)
                                          ELSE Result("IDLE", wp)
    ELSE IF dps2 THEN Result("IDLE", wp)
    ELSE IF battery >= DockedBattery THEN Result("DOCKED", wp)
                                     ELSE Result("IDLE", wp)

\* Lines 160-175: the branch of the legacy if/elif chain that is taken,
\* named by the line of its test.
LegacyBranch(dps6, dps7) ==
    IF dps6 = 2 /\ dps7 = 3 THEN "L160"
    ELSE IF dps6 = 3 /\ dps7 = 4 THEN "L163"
    ELSE IF dps6 = 1 /\ dps7 = 2 THEN "L166"
    ELSE IF dps6 = 0 /\ dps7 = 0 THEN "L169"
    ELSE "L175"

\* Lines 110-187.  "None" is the None the property returns without data.
activity(dat, wp) ==
    IF ~Truthy(dat) THEN Result("None", wp)
    ELSE
    LET d      == dat.dps
        dps2   == Get(d, "2", FALSE)
        dps6   == Get(d, "6", 0)
        dps7   == Get(d, "7", 0)
        dps152 == Get(d, "152", "")
        dps153 == Get(d, "153", "")
        battery == Get(d, "8", 0)
    IN
    IF ErrorRung(dps6, wp).activity # "" THEN ErrorRung(dps6, wp)
    ELSE IF PrimaryRung(dps153, wp).activity # "" THEN PrimaryRung(dps153, wp)
    ELSE IF dps153 = "" THEN
        IF EchoRung(dps152, wp).activity # "" THEN EchoRung(dps152, wp)
        ELSE LegacyRung(dps2, dps6, dps7, battery, wp)
    ELSE Result("IDLE", wp)

----------------------------------------------------------------------------
(* Steps of the environment *)

\* The framework reads the activity property (a state write, the icon)
\* while handlers run; the read leaves its mark in _was_paused.
ReadActivity ==
    /\ was_paused' = activity(data, was_paused).was_paused
    /\ was_paused' # was_paused
    /\ UNCHANGED <<sensors, udp, discovery, setup, data, state, calls, wire>>

\* A scheduled poll or a requested refresh publishes a new snapshot; the
\* snapshot is replaced whole.
Poll ==
    /\ \E d \in PollData : data' = d
    /\ data' # data
    /\ UNCHANGED <<sensors, udp, discovery, setup, was_paused, state, calls, wire>>

----------------------------------------------------------------------------
(* Constants of select.py *)

CLEANING_MODES ==
    [vacuum     |-> [name   |-> "Vacuum Only",
                     dps154 |-> "FAoKCgASABoAIgIIAhIGCAEQASAB",
                     dps10  |-> ""],
     mop_low    |-> [name   |-> "Vacuum and Mop (Water Level: Low)",
                     dps154 |-> "FAoKCgIIAhIAGgAiABIGCAEQASAB",
                     dps10  |-> "low"],
     mop_middle |-> [name   |-> "Vacuum and Mop (Water Level: Medium)",
                     dps154 |-> "FgoMCgIIAhIAGgAiAggBEgYIARABIAE=",
                     dps10  |-> "middle"],
     mop_high   |-> [name   |-> "Vacuum and Mop (Water Level: High)",
                     dps154 |-> "FgoMCgIIAhIAGgAiAggCEgYIARABIAE=",
                     dps10  |-> "high"]]

\* CleaningModeSelect.options
options == {CLEANING_MODES[m].name : m \in DOMAIN CLEANING_MODES}

\* The loop of async_select_option that finds the mode of an option name;
\* "" when no mode has that name.
selected_mode(option) ==
    IF option \in options
    THEN CHOOSE m \in DOMAIN CLEANING_MODES : CLEANING_MODES[m].name = option
    ELSE ""

----------------------------------------------------------------------------
(* Handler invocations *)

\* Entries of a call's trace: what the handler did, in order.
W(dps)     == [op |-> "write",   dps |-> dps,   ms |-> 0]
Sleep(ms)  == [op |-> "sleep",   dps |-> NoDps, ms |-> ms]
Refresh    == [op |-> "refresh", dps |-> NoDps, ms |-> 0]
Log(level) == [op |-> level,     dps |-> NoDps, ms |-> 0]
\* The awaited async_set raised.
Raised     == [op |-> "raised",  dps |-> NoDps, ms |-> 0]

Idle ==
    [fn |-> "idle", arg |-> "", site |-> "", at |-> "idle", out |-> "none",
     trace |-> <<>>]

\* The arguments the callers pass.
FanSpeedArgs == DOMAIN HA_TO_EUFY_FAN_SPEED_MAP \cup {"Eco"}
OptionArgs   == options \cup {"Mop Only"}

CommandAt_confirm(site) ==
    CASE site = "turn_on:318" -> S1_PRO_COMMANDS.start
      [] site = "turn_on:324" -> S1_PRO_COMMANDS.start
      [] site = "start:361"   -> S1_PRO_COMMANDS.cleaning
      [] site = "pause:380"   -> S1_PRO_COMMANDS.pause
      [] site = "return:401"  -> S1_PRO_COMMANDS.return

\* The command a call site of _send_command passes.
CommandAt(site) ==
    CASE site = "turn_on:318" -> S1_PRO_COMMANDS.start
      [] site = "turn_on:324" -> S1_PRO_COMMANDS.cleaning
      [] site = "start:361"   -> S1_PRO_COMMANDS.cleaning
      [] site = "pause:380"   -> S1_PRO_COMMANDS.pause
      [] site = "return:401"  -> S1_PRO_COMMANDS.return

\* The call appends events to its trace and suspends at an await.
Suspend(i, site, at, events) ==
    calls' = [calls EXCEPT ![i].site = site, ![i].at = at,
                           ![i].trace = @ \o events]

\* The call appends events to its trace and ends: it returns or raises.
Finish(i, out, events) ==
    calls' = [calls EXCEPT ![i].site = "", ![i].at = "done", ![i].out = out,
                           ![i].trace = @ \o events]

\* tuya_client.async_set(dps) is handed the write and the call awaits it.
AsyncSet(i, site, at, dps, events) ==
    /\ Suspend(i, site, at, events \o <<W(dps)>>)
    /\ wire' = Append(wire, [by |-> i, dps |-> dps])

\* A new invocation takes the next unused call.
Free(i) ==
    /\ calls[i].at = "idle"
    /\ \A j \in Calls : j < i => calls[j].at # "idle"

\* The call record of a handler that has just been entered.
Entered(fn, arg) ==
    [fn |-> fn, arg |-> arg, site |-> "", at |-> "entry", out |-> "none",
     trace |-> <<>>]

\* _send_command, lines 280-288: up to the await of the write to 152.
SendCommandEnter(i, c, site, events) ==
    LET dps == "152" :> CommandAt(site) IN
    /\ calls' = [calls EXCEPT ![i] =
                    [c EXCEPT !.site = site, !.at = "L288",
                              !.trace = @ \o events \o <<W(dps)>>]]
    /\ wire' = Append(wire, [by |-> i, dps |-> dps])

----------------------------------------------------------------------------
(* RobovacVacuum._is_running *)

_is_running(dat) ==
    IF ~Truthy(dat) THEN FALSE
    ELSE
    LET d      == dat.dps
        dps153 == Get(d, "153", "")
        dps152 == Get(d, "152", "")
        dps6   == Get(d, "6", 0)
        dps7   == Get(d, "7", 0)
    IN
    IF dps153 = S1_PRO_STATUS.CLEANING THEN TRUE
    ELSE IF dps153 = "" /\ (dps152 = S1_PRO_COMMANDS.cleaning \/ dps152 = "AggO")
         THEN TRUE
    ELSE IF dps153 = "" /\ dps152 = "" THEN dps6 = 2 /\ dps7 = 3
    ELSE FALSE

----------------------------------------------------------------------------
(* Entry points of RobovacVacuum *)

\* async_turn_on, lines 309-318 (START).
async_turn_on(i) ==
    /\ Free(i)
    /\ was_paused' = FALSE
    /\ SendCommandEnter(i, Entered("async_turn_on", ""), "turn_on:318", <<>>)
    /\ UNCHANGED <<sensors, udp, discovery, setup, data, state>>

IsResume_noflag(act, wp, dat) ==
    \/ act = "PAUSED"
    \/ Get(dat.dps, "153", "") = S1_PRO_STATUS.PAUSED
    \/ Get(dat.dps, "152", "") = S1_PRO_COMMANDS.pause

IsResume_noecho(act, wp, dat) ==
    \/ act = "PAUSED"
    \/ wp
    \/ Get(dat.dps, "153", "") = S1_PRO_STATUS.PAUSED

\* The test of async_start, lines 353-356, on the values it has just read.
IsResume(act, wp, dat) ==
    \/ act = "PAUSED"
    \/ wp
    \/ Get(dat.dps, "153", "") = S1_PRO_STATUS.PAUSED
    \/ Get(dat.dps, "152", "") = S1_PRO_COMMANDS.pause

\* async_start, lines 343-369 (RESUME), up to its first await.  It reads the
\* activity property, which updates _was_paused, and then calls
\* coordinator.data.get, which raises AttributeError when data is None.
async_start(i) ==
    LET r   == activity(data, was_paused)
        c   == Entered("async_start", "")
    IN
    /\ Free(i)
    /\ UNCHANGED <<sensors, udp, discovery, setup, data, state>>
    /\ IF ~data.present
       THEN /\ calls' = [calls EXCEPT ![i] = [c EXCEPT !.at = "done", !.out = "raised"]]
            /\ was_paused' = r.was_paused
            /\ UNCHANGED wire
       ELSE IF IsResume(r.activity, r.was_paused, data)
       THEN /\ was_paused' = r.was_paused
            /\ SendCommandEnter(i, c, "start:361", <<>>)
       ELSE \* async_turn_on, lines 309-318
            /\ was_paused' = FALSE
            /\ SendCommandEnter(i, c, "turn_on:318", <<>>)

async_pause_late(i) ==
    /\ Free(i)
    /\ \E fn \in {"async_pause", "async_stop", "async_turn_off"} :
          SendCommandEnter(i, Entered(fn, ""), "pause:380", <<>>)
    /\ UNCHANGED <<sensors, udp, discovery, setup, data, state, was_paused>>

async_pause_stop(i) ==
    /\ Free(i)
    /\ \E fn \in {"async_pause", "async_stop", "async_turn_off"} :
          /\ was_paused' = (fn = "async_pause")
          /\ SendCommandEnter(i, Entered(fn, ""), "pause:380", <<>>)
    /\ UNCHANGED <<sensors, udp, discovery, setup, data, state>>

\* async_pause, lines 371-380 (PAUSE); async_stop and async_turn_off (STOP)
\* only await async_pause.
async_pause(i) ==
    /\ Free(i)
    /\ was_paused' = TRUE
    /\ \E fn \in {"async_pause", "async_stop", "async_turn_off"} :
          SendCommandEnter(i, Entered(fn, ""), "pause:380", <<>>)
    /\ UNCHANGED <<sensors, udp, discovery, setup, data, state>>

\* async_return_to_base, lines 392-401 (RETURN_HOME).
async_return_to_base(i) ==
    /\ Free(i)
    /\ was_paused' = FALSE
    /\ SendCommandEnter(i, Entered("async_return_to_base", ""), "return:401", <<>>)
    /\ UNCHANGED <<sensors, udp, discovery, setup, data, state>>

\* async_set_fan_speed, lines 417-432 (SET_FAN_SPEED).
async_set_fan_speed(i) ==
    /\ Free(i)
    /\ \E fan_speed \in FanSpeedArgs :
          LET c == Entered("async_set_fan_speed", fan_speed) IN
          IF fan_speed \notin DOMAIN HA_TO_EUFY_FAN_SPEED_MAP
          THEN /\ calls' = [calls EXCEPT ![i] =
                              [c EXCEPT !.at = "done", !.out = "returned",
                                        !.trace = <<Log("error")>>]]
               /\ UNCHANGED wire
          ELSE LET dps == ("9" :> HA_TO_EUFY_FAN_SPEED_MAP[fan_speed][1])
                          @@ ("158" :> HA_TO_EUFY_FAN_SPEED_MAP[fan_speed][2])
               IN
               /\ calls' = [calls EXCEPT ![i] =
                              [c EXCEPT !.at = "L429", !.trace = <<W(dps)>>]]
               /\ wire' = Append(wire, [by |-> i, dps |-> dps])
    /\ UNCHANGED <<sensors, udp, discovery, setup, data, was_paused, state>>

\* CleaningModeSelect.async_select_option, lines 122-140 (SET_CLEANING_MODE).
async_select_option(i) ==
    /\ Free(i)
    /\ \E option \in OptionArgs :
          LET c == Entered("async_select_option", option) IN
          IF selected_mode(option) = ""
          THEN /\ calls' = [calls EXCEPT ![i] =
                              [c EXCEPT !.at = "done", !.out = "returned",
                                        !.trace = <<Log("error")>>]]
               /\ UNCHANGED wire
          ELSE LET dps == "154" :> CLEANING_MODES[selected_mode(option)].dps154 IN
               /\ calls' = [calls EXCEPT ![i] =
                              [c EXCEPT !.at = "L140", !.trace = <<W(dps)>>]]
               /\ wire' = Append(wire, [by |-> i, dps |-> dps])
    /\ UNCHANGED <<sensors, udp, discovery, setup, data, was_paused, state>>

----------------------------------------------------------------------------
(* RobovacVacuum._send_command, after its first await *)

SendCommandWritten_nodelay(i) ==
    /\ calls[i].at = "L288"
    /\ Suspend(i, calls[i].site, "L291", <<>>)
    /\ UNCHANGED <<sensors, udp, discovery, setup, data, was_paused, state, wire>>

\* Line 288 returns: the write to 152 succeeded; sleep 0.5 s (line 291).
SendCommandWritten(i) ==
    /\ calls[i].at = "L288"
    /\ Suspend(i, calls[i].site, "L291", <<Sleep(500)>>)
    /\ UNCHANGED <<sensors, udp, discovery, setup, data, was_paused, state, wire>>

\* Lines 293-302: after the settle delay, the companion mode for the start,
\* pause and return commands, else straight to the 1 s sleep.
SendCommandCompanion(i) ==
    LET command == CommandAt(calls[i].site) IN
    /\ calls[i].at = "L291"
    /\ IF command = S1_PRO_COMMANDS.start
       THEN AsyncSet(i, calls[i].site, "L295", "5" :> "smart", <<>>)
       ELSE IF command = S1_PRO_COMMANDS.pause
       THEN AsyncSet(i, calls[i].site, "L297", "5" :> "pause", <<>>)
       ELSE IF command = S1_PRO_COMMANDS.return
       THEN AsyncSet(i, calls[i].site, "L299", "5" :> "charge", <<>>)
       ELSE /\ Suspend(i, calls[i].site, "L302", <<Sleep(1000)>>)
            /\ UNCHANGED wire
    /\ UNCHANGED <<sensors, udp, discovery, setup, data, was_paused, state>>

\* Line 295, 297 or 299 returns: the companion write succeeded; sleep 1 s.
SendCommandCompanionWritten(i) ==
    /\ calls[i].at \in {"L295", "L297", "L299"}
    /\ Suspend(i, calls[i].site, "L302", <<Sleep(1000)>>)
    /\ UNCHANGED <<sensors, udp, discovery, setup, data, was_paused, state, wire>>

\* Line 303: after the 1 s sleep, request a refresh.
SendCommandSettled(i) ==
    /\ calls[i].at = "L302"
    /\ Suspend(i, calls[i].site, "L303", <<Refresh>>)
    /\ UNCHANGED <<sensors, udp, discovery, setup, data, was_paused, state, wire>>

\* Line 303 returns and _send_command returns to its caller, which runs on
\* to its next await or to its end.
SendCommandReturns(i) ==
    LET site == calls[i].site IN
    /\ calls[i].at = "L303"
    /\ CASE site = "turn_on:318" ->   \* line 321: sleep 2 s
              /\ Suspend(i, "", "L321", <<Sleep(2000)>>)
              /\ UNCHANGED was_paused
         [] site = "turn_on:324" ->   \* line 327: the final refresh
              /\ Suspend(i, "", "L327", <<Refresh>>)
              /\ UNCHANGED was_paused
         [] site = "start:361" ->     \* line 364
              /\ Finish(i, "returned", <<>>)
              /\ was_paused' = FALSE
         [] site = "pause:380" ->     \* line 382
              /\ Finish(i, "returned", <<>>)
              /\ UNCHANGED was_paused
         [] site = "return:401" ->    \* line 403
              /\ Finish(i, "returned", <<>>)
              /\ UNCHANGED was_paused
    /\ UNCHANGED <<sensors, udp, discovery, setup, data, state, wire>>

SendCommandRaises_retry(i) ==
    /\ calls[i].at \in {"L288", "L295", "L297", "L299"}
    /\ AsyncSet(i, calls[i].site, calls[i].at, wire[Len(wire)].dps,
                <<Raised, Log("error")>>)
    /\ UNCHANGED <<sensors, udp, discovery, setup, data, state, was_paused>>

\* A write of _send_command fails: lines 305-307 log and re-raise, and the
\* except clause of the caller decides what the invoker sees.
SendCommandRaises(i) ==
    LET site == calls[i].site IN
    /\ calls[i].at \in {"L288", "L295", "L297", "L299"}
    /\ CASE site \in {"turn_on:318", "turn_on:324"} ->   \* lines 334-336
              /\ Finish(i, "raised", <<Raised, Log("error"), Log("error")>>)
              /\ UNCHANGED was_paused
         [] site = "start:361" ->                         \* no except clause
              /\ Finish(i, "raised", <<Raised, Log("error")>>)
              /\ UNCHANGED was_paused
         [] site = "pause:380" ->                         \* lines 383-385
              /\ Finish(i, "returned", <<Raised, Log("error"), Log("error")>>)
              /\ was_paused' = FALSE
         [] site = "return:401" ->                        \* lines 404-405
              /\ Finish(i, "returned", <<Raised, Log("error"), Log("error")>>)
              /\ UNCHANGED was_paused
    /\ UNCHANGED <<sensors, udp, discovery, setup, data, state, wire>>

----------------------------------------------------------------------------
(* RobovacVacuum.async_turn_on, after its first await *)

\* Lines 321-324: after the 2 s sleep, send the cleaning command.
TurnOnStabilized(i) ==
    /\ calls[i].at = "L321"
    /\ SendCommandEnter(i, calls[i], "turn_on:324", <<>>)
    /\ UNCHANGED <<sensors, udp, discovery, setup, data, was_paused, state>>

\* Lines 327-332: the final refresh returns; the running check only logs.
TurnOnRefreshed(i) ==
    /\ calls[i].at = "L327"
    /\ Finish(i, "returned",
              <<IF _is_running(data) THEN Log("info") ELSE Log("warning")>>)
    /\ UNCHANGED <<sensors, udp, discovery, setup, data, was_paused, state, wire>>

----------------------------------------------------------------------------
(* RobovacVacuum.async_set_fan_speed, after its await *)

\* Line 429 returns (line 434).
SetFanSpeedWritten(i) ==
    /\ calls[i].at = "L429"
    /\ Finish(i, "returned", <<>>)
    /\ UNCHANGED <<sensors, udp, discovery, setup, data, was_paused, state, wire>>

\* Line 429 raises: lines 435-436 log the error and return.
SetFanSpeedFails(i) ==
    /\ calls[i].at = "L429"
    /\ Finish(i, "returned", <<Raised, Log("error")>>)
    /\ UNCHANGED <<sensors, udp, discovery, setup, data, was_paused, state, wire>>

----------------------------------------------------------------------------
(* CleaningModeSelect.async_select_option, after its first await *)

\* Line 140 returns: sleep 0.5 s (line 141).
SelectOptionWritten(i) ==
    /\ calls[i].at = "L140"
    /\ Suspend(i, "", "L141", <<Sleep(500)>>)
    /\ UNCHANGED <<sensors, udp, discovery, setup, data, was_paused, state, wire>>

SelectOptionWaterLevel_skip(i) ==
    /\ calls[i].at = "L141"
    /\ Suspend(i, "", "L146", <<Sleep(500)>>)
    /\ UNCHANGED <<sensors, udp, discovery, setup, data, was_paused, state, wire>>

\* Lines 143-146: the water level for a mopping mode, then sleep 0.5 s.
SelectOptionWaterLevel(i) ==
    LET mode_config == CLEANING_MODES[selected_mode(calls[i].arg)] IN
    /\ calls[i].at = "L141"
    /\ IF mode_config.dps10 # ""
       THEN AsyncSet(i, "", "L145", "10" :> mode_config.dps10, <<>>)
       ELSE /\ Suspend(i, "", "L146", <<Sleep(500)>>)
            /\ UNCHANGED wire
    /\ UNCHANGED <<sensors, udp, discovery, setup, data, was_paused, state>>

\* Line 145 returns: sleep 0.5 s (line 146).
SelectOptionWaterLevelWritten(i) ==
    /\ calls[i].at = "L145"
    /\ Suspend(i, "", "L146", <<Sleep(500)>>)
    /\ UNCHANGED <<sensors, udp, discovery, setup, data, was_paused, state, wire>>

\* Line 149: after the sleep, request a refresh.
SelectOptionSettled(i) ==
    /\ calls[i].at = "L146"
    /\ Suspend(i, "", "L149", <<Refresh>>)
    /\ UNCHANGED <<sensors, udp, discovery, setup, data, was_paused, state, wire>>

\* Line 149 returns (line 151).
SelectOptionRefreshed(i) ==
    /\ calls[i].at = "L149"
    /\ Finish(i, "returned", <<>>)
    /\ UNCHANGED <<sensors, udp, discovery, setup, data, was_paused, state, wire>>

\* Line 140 or 145 raises: lines 152-153 log the error and return.
SelectOptionFails(i) ==
    /\ calls[i].at \in {"L140", "L145"}
    /\ Finish(i, "returned", <<Raised, Log("error")>>)
    /\ UNCHANGED <<sensors, udp, discovery, setup, data, was_paused, state, wire>>

----------------------------------------------------------------------------
(* sensor.py: the statistics carried by data point 167                     *)

\* Bytes that follow the optional 14-byte fixed part in the buffers parsed.
MaxBody == 5

\* byte & 0x80 and byte & 0x7F
Msb(byte) == byte >= 128
Low7(byte) == byte % 128

\* The tag 0x18 of the last field (field 3, wire type 0).
Marker == 24

\* None in a field of type int | None.
Unknown == -1

\* A base64 text is a sequence of sextets 0..63; Pad is the character '='.
Pad == 64

\* base64.b64encode of at most three bytes: one group of four characters.
EncodeGroup(b) ==
    IF Len(b) = 1
    THEN <<b[1] \div 4, (b[1] % 4) * 16, Pad, Pad>>
    ELSE IF Len(b) = 2
    THEN <<b[1] \div 4, (b[1] % 4) * 16 + (b[2] \div 16), (b[2] % 16) * 4, Pad>>
    ELSE <<b[1] \div 4, (b[1] % 4) * 16 + (b[2] \div 16),
           (b[2] % 16) * 4 + (b[3] \div 64), b[3] % 64>>

RECURSIVE b64encode(_)
b64encode(bytes) ==
    IF Len(bytes) = 0 THEN <<>>
    ELSE IF Len(bytes) <= 3 THEN EncodeGroup(bytes)
    ELSE EncodeGroup(SubSeq(bytes, 1, 3))
             \o b64encode(SubSeq(bytes, 4, Len(bytes)))

\* The bytes of one group of four characters.
DecodeGroup(g) ==
    IF g[3] = Pad THEN <<g[1] * 4 + (g[2] \div 16)>>
    ELSE IF g[4] = Pad
    THEN <<g[1] * 4 + (g[2] \div 16), (g[2] % 16) * 16 + (g[3] \div 4)>>
    ELSE <<g[1] * 4 + (g[2] \div 16), (g[2] % 16) * 16 + (g[3] \div 4),
           (g[3] % 4) * 64 + g[4]>>

RECURSIVE DecodeGroups(_)
DecodeGroups(text) ==
    IF Len(text) = 0 THEN <<>>
    ELSE DecodeGroup(SubSeq(text, 1, 4))
             \o DecodeGroups(SubSeq(text, 5, Len(text)))

\* Line 62: base64.b64decode raises binascii.Error (incorrect padding) on a
\* text whose length is not a multiple of four.
b64decode(text) ==
    IF Len(text) % 4 # 0 THEN [raised |-> TRUE, bytes |-> <<>>]
    ELSE [raised |-> FALSE, bytes |-> DecodeGroups(text)]

\* Lines 54-58: the result dict.
Stats(count, area) ==
    [total_count |-> count, total_area |-> area, total_time_mins |-> Unknown]

total_count_first(d) ==
    LET n == Len(d) IN
    IF n >= 2 /\ d[n - 1] = Marker THEN d[n]
    ELSE Unknown

\* Lines 72-96: the tag is looked for 2, 3, then 4 bytes from the end.
total_count(d) ==
    LET n == Len(d) IN
    IF n >= 2 /\ d[n - 1] = Marker THEN d[n]
    ELSE IF n >= 3 /\ d[n - 2] = Marker
    THEN IF Msb(d[n - 1]) THEN Low7(d[n - 1]) + d[n] * 128
         ELSE d[n - 1]
    ELSE IF n >= 4 /\ d[n - 3] = Marker
    THEN IF Msb(d[n - 2]) /\ Msb(d[n - 1])
         THEN Low7(d[n - 2]) + Low7(d[n - 1]) * 128 + d[n] * 16384
         ELSE IF Msb(d[n - 2]) THEN Low7(d[n - 2]) + d[n - 1] * 128
         ELSE d[n - 2]
    ELSE Unknown

\* Lines 100-110: data[14] and data[15].
total_area(d) ==
    IF Len(d) >= 16
    THEN IF Msb(d[15]) THEN Low7(d[15]) + d[16] * 128 ELSE d[15]
    ELSE Unknown

\* The while loop of decode_varint, lines 30-35, from position pos (counted
\* from 0) with the value so far and 2^shift.
RECURSIVE decode_varint_loop(_, _, _, _)
decode_varint_loop(d, pos, value, weight) ==
    IF pos >= Len(d) THEN [value |-> value, pos |-> pos]
    ELSE LET byte == d[pos + 1]
             v    == value + Low7(byte) * weight
         IN  IF ~Msb(byte) THEN [value |-> v, pos |-> pos + 1]
             ELSE decode_varint_loop(d, pos + 1, v, weight * 128)

\* decode_varint, lines 19-37: the value and the next position.
decode_varint(d, start_pos) == decode_varint_loop(d, start_pos, 0, 1)

\* How a call of the parser ends.
Returned(stats) == [raised |-> FALSE, stats |-> stats]

parse_dps167_statistics_bare(dps167_value) ==
    LET decoded == b64decode(dps167_value) IN
    IF decoded.raised THEN [raised |-> TRUE, stats |-> Stats(Unknown, Unknown)]
    ELSE IF Len(decoded.bytes) = 0 THEN Returned(Stats(Unknown, Unknown))
    ELSE Returned(Stats(total_count(decoded.bytes), total_area(decoded.bytes)))

\* Lines 40-117.  Every index is guarded by a length test, so only
\* b64decode raises inside the try; lines 114-115 log it and the stats
\* filled so far are returned.
parse_dps167_statistics(dps167_value) ==
    LET decoded == b64decode(dps167_value) IN
    IF decoded.raised THEN Returned(Stats(Unknown, Unknown))
    ELSE IF Len(decoded.bytes) = 0 THEN Returned(Stats(Unknown, Unknown))
    ELSE Returned(Stats(total_count(decoded.bytes), total_area(decoded.bytes)))

\* The 14 bytes ahead of the area in a buffer of the device.
FixedPart == <<10, 12, 8, 1, 16, 2, 24, 3, 32, 4, 40, 5, 48, 6>>

BodyBytes == {0, 1, Marker, 100, 127, 200, 255}

RECURSIVE SeqsUpTo(_, _)
SeqsUpTo(S, n) ==
    IF n = 0 THEN {<<>>}
    ELSE LET shorter == SeqsUpTo(S, n - 1)
         IN  shorter \cup {Append(q, x) : q \in shorter, x \in S}

Buffers ==
    {head \o body : head \in {<<>>, FixedPart}, body \in SeqsUpTo(BodyBytes, MaxBody)}

\* The texts handed to the parser: the encodings of the buffers, and texts
\* that lost their last character.
Dps167Values ==
    {b64encode(b) : b \in Buffers}
        \cup {SubSeq(b64encode(b), 1, 4 * ((Len(b) + 2) \div 3) - 1) :
                 b \in {<<Marker, 100>>, FixedPart \o <<200, 1, Marker, 100>>}}

NoSensors ==
    [parsed        |-> FALSE,    \* parse_dps167_statistics has been called
     raised        |-> FALSE,
     stats         |-> Stats(Unknown, Unknown),
     battery_read  |-> FALSE,    \* the battery properties have been read
     battery_level |-> Unknown,  \* RobovacVacuum.battery_level
     native_value  |-> Unknown,  \* BatteryPercentageSensor.native_value
     available     |-> FALSE]    \* BatteryPercentageSensor.available

\* One call of parse_dps167_statistics on the value of data point 167.
ParseStatistics ==
    /\ ~sensors.parsed
    /\ "167" \in DOMAIN data.dps
    /\ LET r == parse_dps167_statistics(data.dps["167"])
       IN  sensors' = [sensors EXCEPT !.parsed = TRUE,
                                      !.raised = r.raised,
                                      !.stats = r.stats]
    /\ UNCHANGED <<data, was_paused, state, calls, wire, discovery, setup, udp>>

----------------------------------------------------------------------------
(* vacuum.py and sensor.py: the battery level                              *)

\* The values data points 8 and 163 may hold: an int, a str (its
\* characters) or None.
IntVal(n) == [type |-> "int", n |-> n, s |-> <<>>]
StrVal(s) == [type |-> "str", n |-> 0, s |-> s]
NoneVal == [type |-> "none", n |-> 0, s |-> <<>>]

Digit == ("0" :> 0) @@ ("1" :> 1) @@ ("2" :> 2) @@ ("3" :> 3) @@ ("4" :> 4)
            @@ ("5" :> 5) @@ ("6" :> 6) @@ ("7" :> 7) @@ ("8" :> 8) @@ ("9" :> 9)

RECURSIVE DigitsValue(_)
DigitsValue(s) ==
    IF Len(s) = 0 THEN 0
    ELSE 10 * DigitsValue(SubSeq(s, 1, Len(s) - 1)) + Digit[s[Len(s)]]

\* int(value): an int is itself, a str of decimal digits is the number it
\* spells, any other str raises ValueError and None raises TypeError.
int(value) ==
    IF value.type = "int" THEN [raised |-> FALSE, n |-> value.n]
    ELSE IF /\ value.type = "str"
            /\ Len(value.s) > 0
            /\ \A k \in DOMAIN value.s : value.s[k] \in DOMAIN Digit
    THEN [raised |-> FALSE, n |-> DigitsValue(value.s)]
    ELSE [raised |-> TRUE, n |-> 0]

\* Lines 194-201 and 204-211 of vacuum.py: the level a data point offers,
\* Unknown when the try block falls through.
Offered(dat, key) ==
    LET value == Get(dat.dps, key, NoneVal) IN
    IF value.type = "none" THEN Unknown
    ELSE LET battery == int(value) IN
         IF ~battery.raised /\ 0 <= battery.n /\ battery.n <= 100
         THEN battery.n ELSE Unknown

battery_level_primary(dat) ==
    IF ~Truthy(dat) THEN Unknown ELSE Offered(dat, "8")

\* vacuum.py, lines 189-212.
battery_level(dat) ==
    IF ~Truthy(dat) THEN Unknown
    ELSE IF Offered(dat, "8") # Unknown THEN Offered(dat, "8")
    ELSE Offered(dat, "163")

\* sensor.py, lines 206-228: the same code as battery_level.
native_value(dat) ==
    IF ~Truthy(dat) THEN Unknown
    ELSE IF Offered(dat, "8") # Unknown THEN Offered(dat, "8")
    ELSE Offered(dat, "163")

\* sensor.py, lines 193-196.
available(dat) ==
    dat.present /\ ("8" \in DOMAIN dat.dps \/ "163" \in DOMAIN dat.dps)

Dps8Battery ==
    {IntVal(-1), IntVal(0), IntVal(50), IntVal(100), IntVal(101),
     StrVal(<<"8", "7">>), StrVal(<<"a">>), StrVal(<<>>), NoneVal}

Dps163Battery ==
    {IntVal(60), IntVal(101), StrVal(<<"4", "2">>), NoneVal}

BatteryDps ==
    { a @@ b @@ c :
        a \in Opt("8", Dps8Battery), b \in Opt("163", Dps163Battery),
        c \in Opt("153", {S1_PRO_STATUS.CLEANING}) }

BatteryData == {NoData} \cup {Snapshot(d) : d \in BatteryDps}

\* The battery properties of the vacuum entity and of the sensor are read.
ReadBattery ==
    /\ ~sensors.battery_read
    /\ sensors' = [sensors EXCEPT !.battery_read = TRUE,
                                  !.battery_level = battery_level(data),
                                  !.native_value = native_value(data),
                                  !.available = available(data)]
    /\ UNCHANGED <<data, was_paused, state, calls, wire, discovery, setup, udp>>

----------------------------------------------------------------------------
(* discovery.py: decrypt_udp on the bytes of a broadcast                   *)

\* Length of the run of filler characters in the plaintexts.
MaxFill == 17

\* The block length of AES in bytes.
BlockSize == 16

\* str.encode(): the UTF-8 bytes of a text of code points below 0x800.
RECURSIVE utf8_encode(_)
utf8_encode(text) ==
    IF Len(text) = 0 THEN <<>>
    ELSE LET c == Head(text) IN
         (IF c < 128 THEN <<c>> ELSE <<192 + (c \div 64), 128 + (c % 64)>>)
             \o utf8_encode(Tail(text))

\* Line 34: bytes.decode() raises UnicodeDecodeError on bytes that are not
\* UTF-8 (here: not a one-byte or a two-byte form).
RECURSIVE utf8_decode(_)
utf8_decode(bytes) ==
    IF Len(bytes) = 0 THEN [raised |-> FALSE, text |-> <<>>]
    ELSE
    LET b == bytes[1] IN
    IF b < 128
    THEN LET rest == utf8_decode(Tail(bytes))
         IN  [raised |-> rest.raised, text |-> <<b>> \o rest.text]
    ELSE IF /\ b >= 194 /\ b <= 223
            /\ Len(bytes) >= 2 /\ bytes[2] >= 128 /\ bytes[2] <= 191
    THEN LET rest == utf8_decode(SubSeq(bytes, 3, Len(bytes)))
         IN  [raised |-> rest.raised,
              text |-> <<(b - 192) * 64 + (bytes[2] - 128)>> \o rest.text]
    ELSE [raised |-> TRUE, text |-> <<>>]

\* The padding of the sender: k bytes of value k up to the next block
\* boundary, a whole block when the length already is a multiple.
Padded(bytes) ==
    LET k == BlockSize - (Len(bytes) % BlockSize)
    IN  bytes \o [i \in 1..k |-> k]

_unpad_keep(d) == d

\* Lines 29-30: data[: -ord(data[len(data) - 1 :])]; ord raises TypeError
\* on the empty slice of empty data, and data[:-0] is empty.
_unpad(d) ==
    LET k == d[Len(d)] IN
    IF k = 0 \/ k >= Len(d) THEN <<>> ELSE SubSeq(d, 1, Len(d) - k)

\* AES under the fixed key UDP_KEY is a permutation of the 16-byte blocks.
\* The model takes one such permutation and its inverse: nothing else of
\* the cipher bears on what decrypt_udp returns for a block it is given.
BlockEncrypt(block) ==
    [i \in 1..BlockSize |-> (block[BlockSize + 1 - i] + 7 * i + 13) % 256]

BlockDecrypt(block) ==
    [i \in 1..BlockSize |->
        (block[BlockSize + 1 - i] - (7 * (BlockSize + 1 - i) + 13)) % 256]

\* ECB: every block on its own.
RECURSIVE EcbEncrypt(_)
EcbEncrypt(bytes) ==
    IF Len(bytes) = 0 THEN <<>>
    ELSE BlockEncrypt(SubSeq(bytes, 1, BlockSize))
             \o EcbEncrypt(SubSeq(bytes, BlockSize + 1, Len(bytes)))

RECURSIVE EcbDecrypt(_)
EcbDecrypt(bytes) ==
    IF Len(bytes) = 0 THEN <<>>
    ELSE BlockDecrypt(SubSeq(bytes, 1, BlockSize))
             \o EcbDecrypt(SubSeq(bytes, BlockSize + 1, Len(bytes)))

\* What a device sends for a text: encoded, padded, encrypted.
Encrypted(text) == EcbEncrypt(Padded(utf8_encode(text)))

\* Lines 26-34 on bytes: finalize() raises ValueError on a length that is
\* not a multiple of the block length, _unpad raises on empty data, decode
\* raises on bytes that are not UTF-8.
DecryptUdp(message) ==
    IF Len(message) % BlockSize # 0 \/ Len(message) = 0
    THEN [raised |-> TRUE, text |-> <<>>]
    ELSE utf8_decode(_unpad(EcbDecrypt(message)))

\* The texts that are broadcast: a run of 'x' and up to two characters from
\* a set that holds code points equal to padding bytes and a two-byte one.
LastChars == {1, 16, 125, 233}

Plaintexts ==
    {[i \in 1..k |-> 120] \o tail :
        k \in 0..MaxFill, tail \in SeqsUpTo(LastChars, 2)}

NoUdp ==
    [plaintext |-> <<>>,
     message   |-> <<>>,
     decrypted |-> FALSE,
     output    |-> [raised |-> FALSE, text |-> <<>>]]

\* decrypt_udp is called on the datagram.
Decrypt ==
    /\ ~udp.decrypted
    /\ udp.message # <<>>
    /\ udp' = [udp EXCEPT !.decrypted = TRUE,
                          !.output = DecryptUdp(udp.message)]
    /\ UNCHANGED <<data, was_paused, state, calls, wire, discovery, setup, sensors>>

----------------------------------------------------------------------------
(* discovery.py: the listener for the devices' UDP broadcasts              *)

\* Datagrams delivered to the listener in one behaviour.
MaxDatagrams == 3

\* local_addr of the two endpoints of TuyaDiscovery.start.
Ports == {6666, 6667}

DeviceIds == {"d1", "d2"}
Hosts     == {"10.0.0.5", "10.0.0.6"}

\* Python's None, and the truth value of "device_id and ...".
None == "None"
Falsy(v) == v \in {None, ""}

\* What json.loads returns: a dict, or a value that is not a dict.
Object(fields) == [kind |-> "object", fields |-> fields]
Array == [kind |-> "array", fields |-> NoDps]

\* The record a device broadcasts.
Broadcast(id, ip) == Object(("gwId" :> id) @@ ("ip" :> ip))

JsonValues ==
    {Broadcast(id, ip) : id \in DeviceIds, ip \in Hosts}
        \cup {Broadcast("", "10.0.0.5"), Object("ip" :> "10.0.0.5"), Array}

\* A text is a JSON document or it is not.
Json(v) == [json |-> TRUE, value |-> v]
NotJson == [json |-> FALSE, value |-> Array]
Texts == {Json(v) : v \in JsonValues} \cup {NotJson}

\* The payload data[20:-8] of a datagram: a text under the broadcast key,
\* a text in the clear, or bytes that are neither.
Datagrams ==
    [cipher : {"aes", "plain"}, text : Texts]
        \cup {[cipher |-> "bytes", text |-> NotJson]}

Decoded(text) == [raised |-> FALSE, text |-> text]
DecodeError == [raised |-> TRUE, text |-> NotJson]

\* Lines 26-34: decrypt_udp raises on a payload that is not a padded AES
\* block sequence holding UTF-8 text.
decrypt_udp(message) ==
    IF message.cipher = "aes" THEN Decoded(message.text) ELSE DecodeError

\* Line 87: data.decode()
decode(message) ==
    IF message.cipher = "plain" THEN Decoded(message.text) ELSE DecodeError

\* The effect of one datagram on self.devices and how the handler ended.
Handled(devices, outcome) == [devices |-> devices, outcome |-> outcome]

device_found_latest(devices, device) ==
    IF device.kind # "object" THEN Handled(devices, "AttributeError")
    ELSE
    LET device_id == Get(device.fields, "gwId", None) IN
    IF ~Falsy(device_id)
    THEN Handled((device_id :> device) @@ devices, "stored")
    ELSE Handled(devices, "ignored")

\* Lines 98-106.  self._callback is None in discover(), so lines 105-106
\* do nothing; device.get on a value that is not a dict raises.
device_found(devices, device) ==
    IF device.kind # "object" THEN Handled(devices, "AttributeError")
    ELSE
    LET device_id == Get(device.fields, "gwId", None) IN
    IF ~Falsy(device_id) /\ device_id \notin DOMAIN devices
    THEN Handled((device_id :> device) @@ devices, "stored")
    ELSE Handled(devices, "ignored")

\* Lines 80-96.  Only json.JSONDecodeError is caught around device_found.
datagram_received(devices, message) ==
    LET decrypted == decrypt_udp(message)
        text == IF ~decrypted.raised THEN decrypted ELSE decode(message)
    IN
    IF text.raised THEN Handled(devices, "discarded")
    ELSE IF ~text.text.json THEN Handled(devices, "discarded")
    ELSE device_found(devices, text.text.value)

\* No TuyaDiscovery object yet.
NoDiscovery ==
    [at        |-> "idle",
     listeners |-> <<>>,     \* self._listeners, by port
     open      |-> {},       \* the ports with an open endpoint
     devices   |-> NoDps,    \* self.devices
     seen      |-> <<>>,     \* the values handed to device_found, in order
     handled   |-> 0,        \* datagrams delivered so far
     last      |-> [message |-> [cipher |-> "bytes", text |-> NotJson],
                    outcome |-> "none"],
     logged    |-> {},
     out       |-> "none",
     result    |-> NoDps]

\* Lines 111-113 and 46-59: discover() makes the object and awaits the
\* gather of the two create_datagram_endpoint coroutines.
discover == [NoDiscovery EXCEPT !.at = "L59"]

\* Line 59 returns: both endpoints are bound.
StartBound ==
    /\ discovery.at = "L59"
    /\ discovery' = [discovery EXCEPT !.at = "L114",
                                      !.listeners = <<6666, 6667>>,
                                      !.open = Ports]
    /\ UNCHANGED <<sensors, udp, data, was_paused, state, calls, wire, setup>>

\* Line 59 raises: a bind failed.  gather does not cancel the other
\* coroutine, so an endpoint that did bind stays open with this object as
\* its protocol; lines 61-68 log and clear self._listeners.
StartFails ==
    /\ discovery.at = "L59"
    /\ \E bound \in (SUBSET Ports) \ {Ports} :
         discovery' = [discovery EXCEPT !.at = "L114",
                                        !.listeners = <<>>,
                                        !.open = bound,
                                        !.logged = @ \cup {"exception"}]
    /\ UNCHANGED <<sensors, udp, data, was_paused, state, calls, wire, setup>>

\* The event loop hands a datagram of an open endpoint to datagram_received.
DatagramReceived ==
    /\ discovery.open # {}
    /\ discovery.handled < MaxDatagrams
    /\ \E message \in Datagrams :
         LET h == datagram_received(discovery.devices, message)
         IN  discovery' =
               [discovery EXCEPT
                  !.devices = h.devices,
                  !.seen = IF h.outcome # "discarded"
                           THEN Append(@, message.text.value) ELSE @,
                  !.handled = @ + 1,
                  !.last = [message |-> message, outcome |-> h.outcome]]
    /\ UNCHANGED <<sensors, udp, data, was_paused, state, calls, wire, setup>>

\* Lines 70-78: close() closes the transports of self._listeners.
close(d) ==
    [d EXCEPT !.open = @ \ {d.listeners[k] : k \in DOMAIN d.listeners}]

\* Lines 114-117: the sleep ends, close() runs, self.devices is returned.
DiscoverReturns ==
    /\ discovery.at = "L114"
    /\ discovery' = [close(discovery) EXCEPT !.at = "done",
                                             !.out = "returned",
                                             !.result = discovery.devices]
    /\ UNCHANGED <<sensors, udp, data, was_paused, state, calls, wire, setup>>

----------------------------------------------------------------------------
(* __init__.py: async_setup_entry                                          *)

\* The device lists the cloud session returns for the home (devId values).
CloudLists == {<<>>, <<"d1">>, <<"d2">>, <<"d1", "d2">>, <<"d2", "d1">>}

\* hass.data[DOMAIN][entry_id][CONF_DISCOVERED_DEVICES]: one entry per
\* coordinator, with the host it was built for and how its first refresh
\* ended.
Registered(device_id, host, refreshed) ==
    [device_id |-> device_id, host |-> host, refreshed |-> refreshed]

NoSetup ==
    [at        |-> "idle",
     todo      |-> <<>>,     \* the devices of the home still to visit
     device_id |-> "",
     host      |-> "",
     registry  |-> {},
     error     |-> "",
     out       |-> "none"]

\* dict.pop(key) of a present key
Pop(d, key) == [k \in DOMAIN d \ {key} |-> d[k]]

\* Lines 26-35: the cloud login and the list of homes are awaited.
async_setup_entry ==
    /\ setup.at = "idle"
    /\ setup' = [setup EXCEPT !.at = "L35"]
    /\ UNCHANGED <<sensors, udp, data, was_paused, state, calls, wire, discovery>>

\* Line 35, 43 or 51 raises: lines 101-104 log and re-raise.
SetupCloudFails ==
    /\ setup.at \in {"L35", "L51"}
    /\ setup' = [setup EXCEPT !.at = "done", !.out = "raised",
                              !.error = "CloudError"]
    /\ UNCHANGED <<sensors, udp, data, was_paused, state, calls, wire, discovery>>

\* Lines 36-48: with the homes known, discover() is called and awaited.
SetupDiscover ==
    /\ setup.at = "L35"
    /\ setup' = [setup EXCEPT !.at = "L48"]
    /\ discovery' = discover
    /\ UNCHANGED <<sensors, udp, data, was_paused, state, calls, wire>>

\* Lines 48-51: discover() has returned self.devices, which is now
\* detected_devices; the devices of the home are requested.
SetupListDevices ==
    /\ setup.at = "L48"
    /\ discovery.out = "returned"
    /\ setup' = [setup EXCEPT !.at = "L51"]
    /\ UNCHANGED <<sensors, udp, data, was_paused, state, calls, wire, discovery>>

\* Line 51 returns the devices of the home.
SetupDevicesListed ==
    /\ setup.at = "L51"
    /\ \E devices_for_home \in CloudLists :
         setup' = [setup EXCEPT !.at = "L53", !.todo = devices_for_home]
    /\ UNCHANGED <<sensors, udp, data, was_paused, state, calls, wire, discovery>>

\* Lines 53-82: the next device of the home.  detected_devices.pop(device_id)
\* has no default: a device that was not discovered raises KeyError, which
\* lines 101-104 log and re-raise.  A stored record is a non-empty dict, so
\* the else branch of lines 95-99 is never taken.
SetupNextDevice ==
    /\ setup.at = "L53"
    /\ setup.todo # <<>>
    /\ LET device_id == Head(setup.todo) IN
       IF device_id \in DOMAIN discovery.devices
       THEN /\ discovery' = [discovery EXCEPT !.devices = Pop(@, device_id)]
            /\ setup' = [setup EXCEPT
                   !.at = "L82",
                   !.device_id = device_id,
                   !.host = discovery.devices[device_id].fields["ip"]]
       ELSE /\ setup' = [setup EXCEPT !.at = "done", !.out = "raised",
                                      !.device_id = device_id,
                                      !.error = "KeyError"]
            /\ UNCHANGED discovery
    /\ UNCHANGED <<sensors, udp, data, was_paused, state, calls, wire>>

SetupFirstRefresh_strict ==
    /\ setup.at = "L82"
    /\ \E refreshed \in BOOLEAN :
         setup' = IF refreshed
                  THEN [setup EXCEPT
                          !.at = "L53",
                          !.todo = Tail(@),
                          !.registry = @ \cup {Registered(setup.device_id,
                                                          setup.host, TRUE)}]
                  ELSE [setup EXCEPT !.at = "done", !.out = "raised",
                                     !.error = "UpdateFailed"]
    /\ UNCHANGED <<sensors, udp, data, was_paused, state, calls, wire, discovery>>

\* Lines 81-94: the first refresh returns or raises (a warning is logged);
\* either way the coordinator is stored.
SetupFirstRefresh ==
    /\ setup.at = "L82"
    /\ \E refreshed \in BOOLEAN :
         setup' = [setup EXCEPT
             !.at = "L53",
             !.todo = Tail(@),
             !.registry = @ \cup {Registered(setup.device_id, setup.host,
                                             refreshed)}]
    /\ UNCHANGED <<sensors, udp, data, was_paused, state, calls, wire, discovery>>

\* Lines 105-110: the loops are done, the platforms are set up.
SetupForward ==
    /\ setup.at = "L53"
    /\ setup.todo = <<>>
    /\ setup' = [setup EXCEPT !.at = "L110"]
    /\ UNCHANGED <<sensors, udp, data, was_paused, state, calls, wire, discovery>>

\* Line 122: return True
SetupReturns ==
    /\ setup.at = "L110"
    /\ setup' = [setup EXCEPT !.at = "done", !.out = "returned"]
    /\ UNCHANGED <<sensors, udp, data, was_paused, state, calls, wire, discovery>>

InitSetup ==
    /\ data = NoData
    /\ was_paused = FALSE
    /\ state = "None"
    /\ calls = [i \in Calls |-> Idle]
    /\ wire = <<>>
    /\ discovery = NoDiscovery
    /\ setup = NoSetup
    /\ sensors = NoSensors
    /\ udp = NoUdp

NextSetup ==
    \/ async_setup_entry
    \/ SetupCloudFails
    \/ SetupDiscover
    \/ StartBound
    \/ StartFails
    \/ DatagramReceived
    \/ DiscoverReturns
    \/ SetupListDevices
    \/ SetupDevicesListed
    \/ SetupNextDevice
    \/ SetupFirstRefresh
    \/ SetupForward
    \/ SetupReturns

SpecSetup == InitSetup /\ [][NextSetup]_vars

----------------------------------------------------------------------------
(* The command model: handlers, polls and property reads interleaved *)

Init ==
    /\ data \in {NoData} \cup PollData
    /\ was_paused = FALSE
    /\ state = "None"
    /\ calls = [i \in Calls |-> Idle]
    /\ wire = <<>>
    /\ discovery = NoDiscovery
    /\ setup = NoSetup
    /\ sensors = NoSensors
    /\ udp = NoUdp

Next ==
    \/ ReadActivity
    \/ Poll
    \/ \E i \in Calls : async_turn_on(i)
    \/ \E i \in Calls : async_start(i)
    \/ \E i \in Calls : async_pause(i)
    \/ \E i \in Calls : async_return_to_base(i)
    \/ \E i \in Calls : async_set_fan_speed(i)
    \/ \E i \in Calls : async_select_option(i)
    \/ \E i \in Calls : SendCommandWritten(i)
    \/ \E i \in Calls : SendCommandCompanion(i)
    \/ \E i \in Calls : SendCommandCompanionWritten(i)
    \/ \E i \in Calls : SendCommandSettled(i)
    \/ \E i \in Calls : SendCommandReturns(i)
    \/ \E i \in Calls : SendCommandRaises(i)
    \/ \E i \in Calls : TurnOnStabilized(i)
    \/ \E i \in Calls : TurnOnRefreshed(i)
    \/ \E i \in Calls : SetFanSpeedWritten(i)
    \/ \E i \in Calls : SetFanSpeedFails(i)
    \/ \E i \in Calls : SelectOptionWritten(i)
    \/ \E i \in Calls : SelectOptionWaterLevel(i)
    \/ \E i \in Calls : SelectOptionWaterLevelWritten(i)
    \/ \E i \in Calls : SelectOptionSettled(i)
    \/ \E i \in Calls : SelectOptionRefreshed(i)
    \/ \E i \in Calls : SelectOptionFails(i)

Spec == Init /\ [][Next]_vars

----------------------------------------------------------------------------
(* The classifier model: the activity property read on every snapshot     *)

\* One read of the activity property; state keeps what it returned.
Classify ==
    /\ state' = activity(data, was_paused).activity
    /\ was_paused' = activity(data, was_paused).was_paused
    /\ UNCHANGED <<sensors, udp, discovery, setup, data, calls, wire>>

InitClassify ==
    /\ data \in AllData
    /\ was_paused \in BOOLEAN
    /\ state = "unread"
    /\ calls = [i \in Calls |-> Idle]
    /\ wire = <<>>
    /\ discovery = NoDiscovery
    /\ setup = NoSetup
    /\ sensors = NoSensors
    /\ udp = NoUdp

NextClassify == Classify

SpecClassify == InitClassify /\ [][NextClassify]_vars

\* The snapshot has been classified.
Classified == state # "unread"

\* dict.get on the published snapshot
dps(k, default) == Get(data.dps, k, default)

Absent(k) == k \notin DOMAIN data.dps

----------------------------------------------------------------------------
(* The parser of the statistics and decrypt_udp on every input            *)

InitTelemetry ==
    /\ data \in {Snapshot("167" :> v) : v \in Dps167Values}
    /\ was_paused = FALSE
    /\ state = "None"
    /\ calls = [i \in Calls |-> Idle]
    /\ wire = <<>>
    /\ discovery = NoDiscovery
    /\ setup = NoSetup
    /\ sensors = NoSensors
    /\ udp = NoUdp

NextTelemetry == ParseStatistics

SpecTelemetry == InitTelemetry /\ [][NextTelemetry]_vars

InitDecrypt ==
    /\ data = NoData
    /\ was_paused = FALSE
    /\ state = "None"
    /\ calls = [i \in Calls |-> Idle]
    /\ wire = <<>>
    /\ discovery = NoDiscovery
    /\ setup = NoSetup
    /\ sensors = NoSensors
    /\ \E text \in Plaintexts :
         udp = [NoUdp EXCEPT !.plaintext = text, !.message = Encrypted(text)]

NextDecrypt == Decrypt

SpecDecrypt == InitDecrypt /\ [][NextDecrypt]_vars

InitBattery ==
    /\ data \in BatteryData
    /\ was_paused = FALSE
    /\ state = "None"
    /\ calls = [i \in Calls |-> Idle]
    /\ wire = <<>>
    /\ discovery = NoDiscovery
    /\ setup = NoSetup
    /\ sensors = NoSensors
    /\ udp = NoUdp

NextBattery == ReadBattery

SpecBattery == InitBattery /\ [][NextBattery]_vars

----------------------------------------------------------------------------
(* select.py: the reported cleaning mode, on a device that stores what it  *)
(* is written                                                              *)

\* DPS_TO_MODE_MAP, lines 42-47; "" is the None of a mode without water.
DPS_TO_MODE_MAP ==
    (<<"FAoKCgASABoAIgIIAhIGCAEQASAB", "">> :> "vacuum")
        @@ (<<"FAoKCgIIAhIAGgAiABIGCAEQASAB", "low">> :> "mop_low")
        @@ (<<"FgoMCgIIAhIAGgAiAggBEgYIARABIAE=", "middle">> :> "mop_middle")
        @@ (<<"FgoMCgIIAhIAGgAiAggCEgYIARABIAE=", "high">> :> "mop_high")

current_option_exact(dat) ==
    IF ~Truthy(dat) THEN None
    ELSE
    LET dps154      == Get(dat.dps, "154", "")
        dps10       == Get(dat.dps, "10", "")
        water_level == IF dps10 \in {"low", "middle", "high"} THEN dps10 ELSE ""
        mode_key    == <<dps154, water_level>>
    IN
    IF mode_key \in DOMAIN DPS_TO_MODE_MAP
    THEN CLEANING_MODES[DPS_TO_MODE_MAP[mode_key]].name
    ELSE None

\* CleaningModeSelect.current_option, lines 94-120.
current_option(dat) ==
    IF ~Truthy(dat) THEN None
    ELSE
    LET dps154      == Get(dat.dps, "154", "")
        dps10       == Get(dat.dps, "10", "")
        water_level == IF dps10 \in {"low", "middle", "high"} THEN dps10 ELSE ""
        mode_key    == <<dps154, water_level>>
    IN
    IF /\ mode_key \in DOMAIN DPS_TO_MODE_MAP
       /\ DPS_TO_MODE_MAP[mode_key] \in DOMAIN CLEANING_MODES
    THEN CLEANING_MODES[DPS_TO_MODE_MAP[mode_key]].name
    ELSE IF dps154 = CLEANING_MODES.vacuum.dps154
    THEN CLEANING_MODES.vacuum.name
    ELSE None

\* The device stores every data point it is written and keeps the others.
RECURSIVE Stored(_, _)
Stored(d, writes) ==
    IF Len(writes) = 0 THEN d
    ELSE Stored(writes[1] @@ d, SubSeq(writes, 2, Len(writes)))

\* What the device may hold in data points 154 and 10 before a selection.
ModeDps ==
    { a @@ b :
        a \in Opt("154", {CLEANING_MODES[m].dps154 : m \in DOMAIN CLEANING_MODES}
                            \cup {"FAoKCgASABoAIgIIAhIGCAEQASAD"}),
        b \in Opt("10", {"low", "middle", "high", "max"}) }

\* SET_CLEANING_MODE is invoked when no other invocation is under way.
SelectMode(i) ==
    /\ \A j \in Calls : calls[j].at \in {"idle", "done"}
    /\ async_select_option(i)

\* Line 149 returns: the refresh has published what the device holds, which
\* is what it held before with the writes of this call stored over it.
ModeRefreshed(i) ==
    /\ calls[i].at = "L149"
    /\ Finish(i, "returned", <<>>)
    /\ data' = Snapshot(Stored(data.dps,
                   [k \in 1..Len(SelectSeq(wire, LAMBDA w : w.by = i)) |->
                       SelectSeq(wire, LAMBDA w : w.by = i)[k].dps]))
    /\ UNCHANGED <<sensors, udp, discovery, setup, was_paused, state, wire>>

InitMode ==
    /\ data \in {Snapshot(d) : d \in ModeDps}
    /\ was_paused = FALSE
    /\ state = "None"
    /\ calls = [i \in Calls |-> Idle]
    /\ wire = <<>>
    /\ discovery = NoDiscovery
    /\ setup = NoSetup
    /\ sensors = NoSensors
    /\ udp = NoUdp

NextMode ==
    \/ \E i \in Calls : SelectMode(i)
    \/ \E i \in Calls : SelectOptionWritten(i)
    \/ \E i \in Calls : SelectOptionWaterLevel(i)
    \/ \E i \in Calls : SelectOptionWaterLevelWritten(i)
    \/ \E i \in Calls : SelectOptionSettled(i)
    \/ \E i \in Calls : ModeRefreshed(i)

SpecMode == InitMode /\ [][NextMode]_vars

----------------------------------------------------------------------------
(* Claims about the classifier, checked under SpecClassify *)

\* C9 as stated: whenever data point 153 holds the PAUSED encoding the
\* classifier returns PAUSED, whatever data points 6 and 7 hold.
C9_AsStated ==
    (Classified /\ dps("153", "") = S1_PRO_STATUS.PAUSED) => state = "PAUSED"

\* C9, amended: whenever data point 153 holds the PAUSED encoding and data
\* point 6 is below the error threshold (or absent), the classifier returns
\* PAUSED, whatever data points 6 and 7 hold.
C9_PausedOverLegacy ==
    (/\ Classified
     /\ dps("153", "") = S1_PRO_STATUS.PAUSED
     /\ dps("6", 0) < ErrorThreshold) => state = "PAUSED"

\* 153 says PAUSED while the legacy pair says CLEANING: PAUSED wins.
C9_Witness ==
    /\ Classified
    /\ dps("153", "") = S1_PRO_STATUS.PAUSED
    /\ dps("6", 0) = 2 /\ dps("7", 0) = 3
    /\ state = "PAUSED"

\* C10 as stated: whenever data point 153 is absent and (6,7) = (2,3) the
\* classifier returns CLEANING.
C10_AsStated ==
    (Classified /\ Absent("153") /\ dps("6", 0) = 2 /\ dps("7", 0) = 3)
        => state = "CLEANING"

\* C10, amended: whenever data point 153 is absent, the command echo 152 is
\* neither the PAUSE nor the RETURN code, and (6,7) = (2,3), the classifier
\* returns CLEANING.
C10_LegacyCleaning ==
    (/\ Classified
     /\ Absent("153")
     /\ dps("152", "") \notin {S1_PRO_COMMANDS.pause, S1_PRO_COMMANDS.return}
     /\ dps("6", 0) = 2 /\ dps("7", 0) = 3) => state = "CLEANING"

\* Only the legacy pair speaks, and it says CLEANING.
C10_Witness ==
    /\ Classified
    /\ Absent("153") /\ Absent("152")
    /\ dps("6", 0) = 2 /\ dps("7", 0) = 3
    /\ state = "CLEANING"

\* Data point 6 is present and holds an error code.
HasError == ~Absent("6") /\ data.dps["6"] >= ErrorThreshold

\* C11: the classifier returns ERROR exactly when data point 6 is present
\* with a number >= 100, whatever data points 153, 152, 7, 2 and 8 hold.
C11_ErrorFirst ==
    Classified => (state = "ERROR" <=> HasError)

\* An error code next to a primary status and a command echo that both say
\* CLEANING and a full battery: ERROR wins.
C11_Witness ==
    /\ Classified
    /\ dps("6", 0) = ErrorThreshold
    /\ dps("153", "") = S1_PRO_STATUS.CLEANING
    /\ dps("152", "") = S1_PRO_COMMANDS.cleaning
    /\ dps("8", 0) = DockedBattery
    /\ state = "ERROR"

\* C12: when data points 153 and 152 are absent and the legacy pair (6,7)
\* is (0,0), the classifier returns DOCKED for a battery level >= 95 and
\* IDLE for a battery level < 95 (95 gives DOCKED, 94 gives IDLE).
C12_BatteryThreshold ==
    (/\ Classified
     /\ Absent("153") /\ Absent("152")
     /\ ~Absent("6") /\ ~Absent("7") /\ ~Absent("8")
     /\ data.dps["6"] = 0 /\ data.dps["7"] = 0)
        => state = IF data.dps["8"] >= DockedBattery THEN "DOCKED" ELSE "IDLE"

\* The pair is (0,0), the battery is at 95 and the power flag is on: DOCKED.
C12_Witness ==
    /\ Classified
    /\ Absent("153") /\ Absent("152")
    /\ dps("6", 1) = 0 /\ dps("7", 1) = 0
    /\ dps("2", FALSE)
    /\ dps("8", 0) = DockedBattery
    /\ state = "DOCKED"

\* C13: when data point 153 is present, non-empty and none of the three
\* known encodings, and data point 6 holds no error code, the classifier
\* returns DOCKED, whatever data points 152, 6, 7, 2 and 8 hold.
C13_UnknownStatusDocked ==
    (/\ Classified
     /\ ~Absent("153")
     /\ dps("153", "") # ""
     /\ dps("153", "") \notin S1_PRO_STATUS_values
     /\ ~HasError) => state = "DOCKED"

\* An unrecognised status next to a PAUSE echo, a legacy pair that says
\* CLEANING, the power flag on and a battery below 95: DOCKED.
C13_Witness ==
    /\ Classified
    /\ dps("153", "") = OtherStatus
    /\ dps("152", "") = S1_PRO_COMMANDS.pause
    /\ dps("6", 0) = 2 /\ dps("7", 0) = 3
    /\ dps("2", FALSE)
    /\ dps("8", 0) = DockedBattery - 1
    /\ state = "DOCKED"

\* The activity the three known command codes of data point 152 stand for.
EchoActivity(code) ==
    IF code = S1_PRO_COMMANDS.cleaning THEN "CLEANING"
    ELSE IF code = S1_PRO_COMMANDS.pause THEN "PAUSED"
    ELSE IF code = S1_PRO_COMMANDS.return THEN "RETURNING"
    ELSE ""

\* C14: when data point 153 is absent and data point 152 holds the CLEANING,
\* PAUSE or RETURN command code, the classifier returns CLEANING, PAUSED or
\* RETURNING respectively, whatever data points 6 and 7 (below the error
\* threshold), 2 and 8 hold.
C14_EchoFallback ==
    (/\ Classified
     /\ Absent("153")
     /\ EchoActivity(dps("152", "")) # ""
     /\ ~HasError) => state = EchoActivity(dps("152", ""))

\* The echo says RETURN while the legacy pair says CLEANING: RETURNING.
C14_Witness ==
    /\ Classified
    /\ Absent("153")
    /\ dps("152", "") = S1_PRO_COMMANDS.return
    /\ dps("6", 0) = 2 /\ dps("7", 0) = 3
    /\ state = "RETURNING"

\* The property reaches the legacy chain of lines 160-184 on the snapshot:
\* no error code, 153 falsy, and 152 none of the three known codes.
ReachesLegacy ==
    /\ Truthy(data)
    /\ ~HasError
    /\ dps("153", "") = ""
    /\ EchoActivity(dps("152", "")) = ""

\* C15: when data point 153 is absent and data point 152 is present but
\* none of the known command codes, the classifier returns the terminal
\* default IDLE and derives nothing from data points 6, 7, 2 and 8.
C15_LegacyOnlyWithoutEcho ==
    (/\ Classified
     /\ Absent("153")
     /\ ~Absent("152")
     /\ EchoActivity(dps("152", "")) = ""
     /\ ~HasError) => state = "IDLE"

\* Lines 170 and 180: battery = self.coordinator.data.get("8", 0)
BatteryRead == dps("8", 0)

\* C16: an absent data-point key is unknown to the classifier, never a
\* default value: a snapshot without keys 6 and 7 is not classified by the
\* (0,0) rule of the legacy chain, and a snapshot without key 8 is not
\* compared as battery 0.
C16_AbsentIsUnknown ==
    (Classified /\ ReachesLegacy) =>
        /\ (Absent("6") /\ Absent("7"))
               => LegacyBranch(dps("6", 0), dps("7", 0)) # "L169"
        /\ Absent("8") => BatteryRead # 0

----------------------------------------------------------------------------
(* Claims about the command handlers, checked under Spec *)

Cmd(code) == "152" :> code

\* The writes call i has handed to the device, in order.
WritesBy(i) ==
    LET own == SelectSeq(wire, LAMBDA w : w.by = i)
    IN  [k \in 1..Len(own) |-> own[k].dps]

IsPrefix(s, t) == Len(s) <= Len(t) /\ \A k \in 1..Len(s) : s[k] = t[k]

\* What the handler did besides logging.
Steps(i) == SelectSeq(calls[i].trace, LAMBDA e : e.op \in {"write", "sleep", "refresh"})

WriteFailed(i) == \E k \in 1..Len(calls[i].trace) : calls[i].trace[k].op = "raised"

Done(i) == calls[i].at = "done"

\* This step invokes one of the entry points fns as call i.
Invokes(i, fns) == calls[i].at = "idle" /\ calls'[i].fn \in fns

\* This step ends call i.
Ends(i) == calls[i].at \notin {"idle", "done"} /\ calls'[i].at = "done"

\* A snapshot is published and it carries none of the status fields.
NoStatusFields == data.present /\ DOMAIN data.dps \cap {"153", "152", "6", "7"} = {}

\* The plan of START: the three writes, and everything between them.
StartWrites ==
    <<Cmd(S1_PRO_COMMANDS.start), "5" :> "smart", Cmd(S1_PRO_COMMANDS.cleaning)>>

StartSteps ==
    << W(Cmd(S1_PRO_COMMANDS.start)), Sleep(500), W("5" :> "smart"), Sleep(1000),
       Refresh, Sleep(2000), W(Cmd(S1_PRO_COMMANDS.cleaning)), Sleep(500),
       Sleep(1000), Refresh, Refresh >>

\* Call i took the resume branch of async_start (line 361).
Resumed(i) ==
    /\ calls[i].fn = "async_start"
    /\ calls[i].trace # <<>>
    /\ calls[i].trace[1] = W(Cmd(S1_PRO_COMMANDS.cleaning))

\* Call i runs the body of async_turn_on, entered directly or from line 369.
Started(i) ==
    /\ calls[i].fn \in {"async_turn_on", "async_start"}
    /\ calls[i].trace # <<>>
    /\ calls[i].trace[1] = W(Cmd(S1_PRO_COMMANDS.start))

PauseFns == {"async_pause", "async_stop", "async_turn_off"}

C5_FailureSurfaces ==
    \A i \in Calls : (Done(i) /\ WriteFailed(i)) => calls[i].out = "raised"

\* C6: the writes of one call are not separated by a write of another call.
C6_Serialized ==
    \A a, b, c \in 1..Len(wire) :
        (a < b /\ b < c /\ wire[a].by = wire[c].by) => wire[b].by = wire[a].by

\* C7: START clears the flag before its first write, and what it does is a
\* prefix of: START to 152, 0.5 s, smart to 5, 1 s, refresh, 2 s, CLEANING to
\* 152, 0.5 s, 1 s, refresh, refresh; all of it when START returns, and the
\* running check (its log line) comes last.
C7_StartPlan ==
    /\ [][\A i \in Calls : Invokes(i, {"async_turn_on"}) =>
            /\ ~was_paused'
            /\ calls'[i].trace = <<W(Cmd(S1_PRO_COMMANDS.start))>>]_vars
    /\ [](\A i \in Calls : calls[i].fn = "async_turn_on" =>
            /\ IsPrefix(Steps(i), StartSteps)
            /\ calls[i].out = "returned" =>
                  /\ Steps(i) = StartSteps
                  /\ Len(calls[i].trace) = Len(StartSteps) + 1
                  /\ calls[i].trace[Len(calls[i].trace)].op \in {"info", "warning"})

\* START has returned after its whole plan.
C7_Witness ==
    \E i \in Calls :
        /\ calls[i].fn = "async_turn_on" /\ calls[i].out = "returned"
        /\ WritesBy(i) = StartWrites

\* C8: SET_FAN_SPEED with a level outside the four hands the device nothing
\* and the caller gets an exception; with one of the four it hands the device
\* one write that carries data points 9 and 158.
C8_FanSpeedValidation ==
    \A i \in Calls : calls[i].fn = "async_set_fan_speed" =>
        IF calls[i].arg \in {"Quiet", "Standard", "Turbo", "Maximum"}
        THEN Len(WritesBy(i)) = 1 /\ DOMAIN WritesBy(i)[1] = {"9", "158"}
        ELSE WritesBy(i) = <<>> /\ calls[i].out = "raised"

----------------------------------------------------------------------------
(* Claims about discovery and setup, checked under SpecSetup *)

\* The dicts with a device identifier that device_found has been handed.
Identified(k) ==
    /\ discovery.seen[k].kind = "object"
    /\ ~Falsy(Get(discovery.seen[k].fields, "gwId", None))

SeenIds ==
    {discovery.seen[k].fields["gwId"] :
        k \in {j \in DOMAIN discovery.seen : Identified(j)}}

\* The first record received for the identifier.
FirstSeen(id) ==
    LET ks == {k \in DOMAIN discovery.seen :
                  Identified(k) /\ discovery.seen[k].fields["gwId"] = id}
    IN  discovery.seen[CHOOSE k \in ks : \A j \in ks : k <= j]

\* C17: after any sequence of received records, and until setup starts to
\* take entries out, the discovered set holds exactly one entry per device
\* identifier seen, and the entry is the first record received for that
\* identifier.
C17_FirstSeenWins ==
    setup.at = "L48" =>
        /\ DOMAIN discovery.devices = SeenIds
        /\ \A id \in SeenIds : discovery.devices[id] = FirstSeen(id)

\* Two different records of d1 and then one of d2: two entries, and the
\* entry of d1 is the first record.
C17_Witness ==
    /\ setup.at = "L48"
    /\ discovery.seen = <<Broadcast("d1", "10.0.0.5"),
                          Broadcast("d1", "10.0.0.6"),
                          Broadcast("d2", "10.0.0.5")>>
    /\ Cardinality(DOMAIN discovery.devices) = 2
    /\ discovery.devices["d1"] = Broadcast("d1", "10.0.0.5")

\* C18: when the bind of either port fails, discover() does not raise and
\* returns an empty set.
C18_BindFailureEmpty ==
    (discovery.out # "none" /\ "exception" \in discovery.logged)
        => (discovery.out = "returned" /\ discovery.result = NoDps)

\* C19: a device the cloud lists and discovery did not find does not make
\* setup fail: it is skipped and setup goes on.
C19_MissingDeviceSkipped ==
    ~(setup.out = "raised" /\ setup.error = "KeyError")

\* A payload that cannot be decrypted or decoded, is not JSON, is not a
\* dict, or holds no device identifier.
Noise(message) ==
    \/ message.cipher = "bytes"
    \/ ~message.text.json
    \/ message.text.value.kind # "object"
    \/ Falsy(Get(message.text.value.fields, "gwId", None))

\* C20: handling a datagram never raises, and a datagram that cannot be
\* decrypted or decoded, is not a key-value record or holds no device
\* identifier leaves the discovered set as it was.
C20_NoiseDiscarded ==
    [][discovery'.handled = discovery.handled + 1 =>
          /\ discovery'.last.outcome \in {"stored", "ignored", "discarded"}
          /\ Noise(discovery'.last.message)
                => discovery'.devices = discovery.devices]_vars

\* C21: for a device matched by discovery, the coordinator is stored in the
\* registry whether its first refresh returned or raised, and setup goes on
\* to the next device of the list.
C21_RegisteredWithoutSnapshot ==
    [][(setup.at = "L82" /\ setup' # setup) =>
          /\ \E r \in setup'.registry :
                r.device_id = setup.device_id /\ r.host = setup.host
          /\ setup.registry \subseteq setup'.registry
          /\ setup'.at = "L53"
          /\ setup'.todo = Tail(setup.todo)]_vars

\* Two matched devices, both first refreshes raised, both coordinators are
\* stored and setup has returned.
C21_Witness ==
    /\ setup.out = "returned"
    /\ {r.device_id : r \in setup.registry} = DeviceIds
    /\ \A r \in setup.registry : ~r.refreshed

----------------------------------------------------------------------------
(* Claims about the statistics parser, checked under SpecTelemetry *)

\* The bytes the parser works on.
Buffer == b64decode(data.dps["167"]).bytes

\* The varint of n: seven bits per byte, low bits first, the high bit set on
\* every byte but the last.
RECURSIVE Varint(_)
Varint(n) ==
    IF n < 128 THEN <<n>> ELSE <<128 + (n % 128)>> \o Varint(n \div 128)

RECURSIVE VarintValue(_)
VarintValue(bytes) ==
    IF Len(bytes) = 0 THEN 0
    ELSE (bytes[1] % 128) + 128 * VarintValue(Tail(bytes))

\* The last len bytes of the buffer.
Last(len) == SubSeq(Buffer, Len(Buffer) - len + 1, Len(Buffer))

\* The buffer ends with the marker and the varint of a count in len bytes.
EndsWithCount(len) ==
    /\ Len(Buffer) > len
    /\ Buffer[Len(Buffer) - len] = Marker
    /\ Last(len) = Varint(VarintValue(Last(len)))

\* C22: a buffer that ends with the marker byte 0x18 and the varint of a
\* count n in 1, 2 or 3 bytes, after any prefix, decodes to total_count = n.
C22_TrailingCount ==
    sensors.parsed =>
        \A len \in 1..3 :
            EndsWithCount(len) => sensors.stats.total_count = VarintValue(Last(len))

\* The base64 text "CgwIARACGAMgBCgFMAbIARjIAQ==": the fixed part, the area, the marker and
\* 200 in two bytes.
C22_Witness ==
    /\ sensors.parsed
    /\ data.dps["167"] =
          <<2, 32, 48, 8, 0, 17, 0, 2, 6, 0, 12, 32, 1, 2, 32, 5, 12,
            0, 27, 8, 0, 17, 35, 8, 0, 16, 64, 64>>
    /\ Buffer = FixedPart \o <<200, 1, Marker>> \o Varint(200)
    /\ sensors.stats.total_count = 200

\* The marker is at none of the three places the parser looks at.
NoMarker ==
    \A len \in 1..3 : Len(Buffer) > len => Buffer[Len(Buffer) - len] # Marker

\* C23: the parser returns on every input and raises on none; a field it
\* could not decode is unknown: both fields for text that is not base64 and
\* for an empty buffer, the area for a buffer shorter than 16 bytes, the
\* count for a buffer without the marker; the duration is always unknown.
C23_DegradesToUnknown ==
    sensors.parsed =>
        /\ ~sensors.raised
        /\ sensors.stats.total_time_mins = Unknown
        /\ (b64decode(data.dps["167"]).raised \/ Len(Buffer) = 0) =>
               /\ sensors.stats.total_count = Unknown
               /\ sensors.stats.total_area = Unknown
        /\ Len(Buffer) < 16 => sensors.stats.total_area = Unknown
        /\ NoMarker => sensors.stats.total_count = Unknown

\* A text that is not base64 (a character is missing) has been parsed.
C23_Witness ==
    /\ sensors.parsed
    /\ ~sensors.raised
    /\ b64decode(data.dps["167"]).raised
    /\ sensors.stats = Stats(Unknown, Unknown)

----------------------------------------------------------------------------
(* Claim about decrypt_udp, checked under SpecDecrypt *)

\* C24: for every plaintext, decrypt_udp applied to the plaintext encoded,
\* padded and encrypted block by block under the fixed key returns the
\* plaintext, exactly.
C24_RoundTrip ==
    udp.decrypted =>
        /\ ~udp.output.raised
        /\ udp.output.text = udp.plaintext

\* A text of exactly one block whose last characters equal padding bytes:
\* the sender adds a whole block of padding, and only that is stripped.
C24_Witness ==
    /\ udp.decrypted
    /\ udp.plaintext = [i \in 1..14 |-> 120] \o <<16, 1>>
    /\ Len(udp.message) = 2 * BlockSize
    /\ udp.output.text = udp.plaintext

----------------------------------------------------------------------------
(* Claim about the battery level, checked under SpecBattery *)

\* The data point is present with an int in 0..100.
IntInRange(key) ==
    /\ key \in DOMAIN data.dps
    /\ data.dps[key].type = "int"
    /\ 0 <= data.dps[key].n /\ data.dps[key].n <= 100

\* C25 as stated: the battery level is the value of key 8 if that is an
\* integer in 0..100, else the value of key 163 if that is an integer in
\* 0..100, else unknown.
C25_AsStated ==
    sensors.battery_read =>
        sensors.battery_level =
            IF IntInRange("8") THEN data.dps["8"].n
            ELSE IF IntInRange("163") THEN data.dps["163"].n
            ELSE Unknown

\* The data point is present with a value that int() turns into a number in
\* 0..100: an int, or a str of decimal digits.
Usable(key) ==
    /\ key \in DOMAIN data.dps
    /\ \/ data.dps[key].type = "int"
       \/ /\ data.dps[key].type = "str"
          /\ data.dps[key].s # <<>>
          /\ \A k \in DOMAIN data.dps[key].s :
                 data.dps[key].s[k] \in DOMAIN Digit
    /\ 0 <= int(data.dps[key]).n /\ int(data.dps[key]).n <= 100

\* C25, amended: the battery level is int() of key 8 if key 8 holds an int
\* or a numeral and the number is in 0..100, else int() of key 163 under
\* the same condition, else unknown; the vacuum entity and the battery
\* sensor report the same level, and with neither key the sensor is
\* unavailable and the level unknown.
C25_BatteryValue ==
    sensors.battery_read =>
        /\ sensors.battery_level =
               IF Usable("8") THEN int(data.dps["8"]).n
               ELSE IF Usable("163") THEN int(data.dps["163"]).n
               ELSE Unknown
        /\ sensors.native_value = sensors.battery_level
        /\ (Absent("8") /\ Absent("163")) =>
               ~sensors.available /\ sensors.battery_level = Unknown

\* The snapshot {153: CLEANING}: the activity is CLEANING, the battery
\* sensor is unavailable and the level unknown.
C25_Witness ==
    /\ sensors.battery_read
    /\ data = Snapshot("153" :> S1_PRO_STATUS.CLEANING)
    /\ activity(data, was_paused).activity = "CLEANING"
    /\ ~sensors.available
    /\ sensors.battery_level = Unknown

----------------------------------------------------------------------------
(* Claims about the command handlers and the memory, checked under Spec *)

\* Call p is a PAUSE that has returned with every write made, and no call
\* after it has been a START, a RESUME, a RETURN_HOME or another PAUSE.
PausedBy(p) ==
    /\ calls[p].fn \in PauseFns
    /\ calls[p].out = "returned"
    /\ ~WriteFailed(p)
    /\ \A k \in Calls :
          (k > p /\ calls[k].at # "idle") =>
              calls[k].fn \in {"async_set_fan_speed", "async_select_option"}

\* C26: after a PAUSE whose writes all succeeded, with no START, RESUME or
\* RETURN_HOME since, the next RESUME hands the device the CLEANING code and
\* never the START code, whatever snapshots were published and whatever
\* reads of the activity happened in between.
C26_ResumeAfterPause ==
    [][\A p, r \in Calls :
        (PausedBy(p) /\ p < r /\ Invokes(r, {"async_start"}) /\ data.present)
            => calls'[r].trace = <<W(Cmd(S1_PRO_COMMANDS.cleaning))>>]_vars

\* The write events of call i's trace, in order.
WriteEvents(i) == SelectSeq(calls[i].trace, LAMBDA e : e.op = "write")

\* C27: when a write of a call raises, the call ends there: the event
\* before the failure is the write that failed, nothing but logging follows
\* it, and the device has been handed exactly the writes of the trace, so no
\* later write of the plan, no second attempt and no write that undoes an
\* earlier one is issued.
C27_FailureEndsPlan ==
    \A i \in Calls :
        /\ Len(WritesBy(i)) = Len(WriteEvents(i))
        /\ \A k \in 1..Len(calls[i].trace) :
              calls[i].trace[k].op = "raised" =>
                  /\ Done(i)
                  /\ k > 1 /\ calls[i].trace[k - 1].op = "write"
                  /\ \A m \in (k + 1)..Len(calls[i].trace) :
                        calls[i].trace[m].op \in {"error", "info", "warning"}
        /\ WriteFailed(i) =>
              \/ /\ calls[i].fn \in {"async_turn_on", "async_start"}
                 /\ IsPrefix(WritesBy(i), StartWrites)
              \/ /\ calls[i].fn = "async_start"
                 /\ WritesBy(i) = <<Cmd(S1_PRO_COMMANDS.cleaning)>>
              \/ /\ calls[i].fn \in PauseFns
                 /\ IsPrefix(WritesBy(i), <<Cmd(S1_PRO_COMMANDS.pause), "5" :> "pause">>)
              \/ /\ calls[i].fn = "async_return_to_base"
                 /\ IsPrefix(WritesBy(i), <<Cmd(S1_PRO_COMMANDS.return), "5" :> "charge">>)
              \/ /\ calls[i].fn = "async_set_fan_speed"
                 /\ Len(WritesBy(i)) = 1
              \/ /\ calls[i].fn = "async_select_option"
                 /\ Len(WritesBy(i)) <= 2
                 /\ DOMAIN WritesBy(i)[1] = {"154"}
                 /\ Len(WritesBy(i)) = 2 => DOMAIN WritesBy(i)[2] = {"10"}

\* START's second write, smart to 5, raised: the call has ended with the
\* two writes and the CLEANING code was never sent.
C27_Witness ==
    \E i \in Calls :
        /\ calls[i].fn = "async_turn_on" /\ Done(i) /\ WriteFailed(i)
        /\ WritesBy(i) = <<Cmd(S1_PRO_COMMANDS.start), "5" :> "smart">>

StopFns == {"async_stop", "async_turn_off"}

\* The plan of PAUSE.
PauseWrites == <<Cmd(S1_PRO_COMMANDS.pause), "5" :> "pause">>

PauseSteps ==
    << W(Cmd(S1_PRO_COMMANDS.pause)), Sleep(500), W("5" :> "pause"),
       Sleep(1000), Refresh >>

\* Entry point fn is invoked as call i, leaves the flag at wp and has handed
\* the device the write w.
InvokedAs(i, fn, wp, w) ==
    /\ async_pause(i)
    /\ calls'[i].fn = fn
    /\ was_paused' = wp
    /\ wire' = Append(wire, [by |-> i, dps |-> w])

\* C28: STOP is PAUSE.  From every state, invoking async_stop or
\* async_turn_off can leave the flag at a value and hand the device a write
\* exactly when invoking async_pause can; a STOP or PAUSE under way has done
\* a prefix of the plan of PAUSE; and it ends with the whole plan done and
\* the flag untouched when every write succeeded, and with the flag clear
\* and a normal return when a write raised.
C28_StopIsPause ==
    /\ [](\A i \in Calls, fn \in StopFns, wp \in BOOLEAN, c \in DOMAIN S1_PRO_COMMANDS :
            (ENABLED InvokedAs(i, fn, wp, Cmd(S1_PRO_COMMANDS[c])))
                <=> (ENABLED InvokedAs(i, "async_pause", wp, Cmd(S1_PRO_COMMANDS[c]))))
    /\ [](\A i \in Calls : calls[i].fn \in PauseFns =>
            /\ IsPrefix(Steps(i), PauseSteps)
            /\ IsPrefix(WritesBy(i), PauseWrites))
    /\ [][\A i \in Calls :
            /\ Invokes(i, PauseFns) => was_paused'
            /\ (Ends(i) /\ calls[i].fn \in PauseFns) =>
                  /\ calls'[i].out = "returned"
                  /\ IF WriteFailed(i)'
                     THEN ~was_paused'
                     ELSE Steps(i)' = PauseSteps /\ was_paused' = was_paused]_vars

\* A STOP has returned after the two writes of PAUSE with the flag set, and
\* another STOP has returned after a write raised, which cleared the flag.
C28_Witness ==
    /\ calls[1].fn = "async_stop" /\ calls[1].out = "returned"
    /\ ~WriteFailed(1) /\ WritesBy(1) = PauseWrites
    /\ calls[2].fn = "async_turn_off" /\ calls[2].out = "returned"
    /\ WriteFailed(2) /\ ~was_paused

\* The modes that mop, and the water level each of them names.
WaterLevel ==
    ("Vacuum and Mop (Water Level: Low)" :> "low")
        @@ ("Vacuum and Mop (Water Level: Medium)" :> "middle")
        @@ ("Vacuum and Mop (Water Level: High)" :> "high")

UsesMopping(option) == option \in DOMAIN WaterLevel

\* The plan of SET_CLEANING_MODE for a recognized mode.
SelectSteps(option) ==
    <<W("154" :> CLEANING_MODES[selected_mode(option)].dps154), Sleep(500)>>
        \o (IF UsesMopping(option) THEN <<W("10" :> WaterLevel[option])>> ELSE <<>>)
        \o <<Sleep(500), Refresh>>

\* C29: SET_CLEANING_MODE with a recognized mode does a prefix of: write
\* 154, 0.5 s, write 10 if and only if the mode mops, 0.5 s, refresh; all of
\* it when no write raised, and the device is handed exactly those writes.
\* With an unrecognized mode it logs an error and ends with no write and no
\* refresh.
C29_CleaningModePlan ==
    \A i \in Calls : calls[i].fn = "async_select_option" =>
        IF calls[i].arg \in options
        THEN /\ IsPrefix(Steps(i), SelectSteps(calls[i].arg))
             /\ (Done(i) /\ ~WriteFailed(i)) => Steps(i) = SelectSteps(calls[i].arg)
             /\ WritesBy(i) = [k \in 1..Len(WriteEvents(i)) |-> WriteEvents(i)[k].dps]
        ELSE /\ Done(i)
             /\ calls[i].trace = <<Log("error")>>
             /\ WritesBy(i) = <<>>

\* A mopping mode has been set with both writes and the refresh, a
\* vacuum-only mode with the one write to 154 and the refresh.
C29_Witness ==
    /\ calls[1].fn = "async_select_option" /\ calls[1].out = "returned"
    /\ calls[1].arg = "Vacuum and Mop (Water Level: High)"
    /\ WritesBy(1) = <<"154" :> "FgoMCgIIAhIAGgAiAggCEgYIARABIAE=", "10" :> "high">>
    /\ calls[1].trace[Len(calls[1].trace)] = Refresh
    /\ calls[2].fn = "async_select_option" /\ calls[2].out = "returned"
    /\ calls[2].arg = "Vacuum Only"
    /\ WritesBy(2) = <<"154" :> "FAoKCgASABoAIgIIAhIGCAEQASAB">>
    /\ calls[2].trace[Len(calls[2].trace)] = Refresh

----------------------------------------------------------------------------
(* Claim about the memory of the classifier, checked under SpecClassify *)

\* C30: the was_paused memory never alters classification: on every
\* snapshot the classifier returns the same activity with the memory set
\* and with it clear, which is the activity it returned, and evaluated again
\* on the same snapshot with the memory it left it returns that activity
\* and leaves the memory as it is.
C30_MemoryDoesNotClassify ==
    Classified =>
        /\ activity(data, TRUE).activity = state
        /\ activity(data, FALSE).activity = state
        /\ activity(data, was_paused) = Result(state, was_paused)

\* The memory was set when a snapshot that holds only a battery level
\* below the docked threshold was classified: the classifier kept the memory and returned IDLE, as it does
\* with the memory clear.
C30_Witness ==
    /\ Classified
    /\ was_paused
    /\ data = Snapshot("8" :> 94)
    /\ state = "IDLE"
    /\ activity(data, FALSE).activity = "IDLE"

----------------------------------------------------------------------------
(* Claim about the running check of START, checked under SpecClassify *)

\* C31: on every snapshot without an error code the running check that
\* START consults after its final refresh agrees with the classifier:
\* _is_running() holds exactly when the activity is CLEANING, so the warning
\* is logged exactly when the classified state is not CLEANING.
C31_RunningIsCleaning ==
    (Classified /\ ~HasError) => (_is_running(data) <=> state = "CLEANING")

----------------------------------------------------------------------------
(* Claim about the area, checked under SpecTelemetry *)

\* C32: for every buffer of at least 16 bytes total_area is the value
\* decode_varint returns from position 14, and for a non-empty buffer of
\* fewer than 16 bytes it is unknown.
C32_AreaIsVarint ==
    (sensors.parsed /\ ~b64decode(data.dps["167"]).raised /\ Len(Buffer) > 0) =>
        sensors.stats.total_area =
            IF Len(Buffer) >= 16 THEN decode_varint(Buffer, 14).value ELSE Unknown

----------------------------------------------------------------------------
(* Claim about the sockets of discover(), checked under SpecSetup *)

\* C33: once discover() has returned, every endpoint it bound is closed,
\* whichever of the two binds succeeded, and the mapping it returned holds
\* no record that was added after the return.
C33_ClosedOnReturn ==
    discovery.at = "done" =>
        /\ discovery.open = {}
        /\ DOMAIN discovery.devices \subseteq DOMAIN discovery.result

----------------------------------------------------------------------------
(* Claim about the reported cleaning mode, checked under SpecMode *)

\* Call i is the last selection of a recognized mode, and it has returned.
LastSelection(i) ==
    /\ calls[i].fn = "async_select_option"
    /\ calls[i].arg \in options
    /\ calls[i].out = "returned"
    /\ \A j \in Calls :
          j > i => \/ calls[j].at = "idle"
                   \/ calls[j].at = "done" /\ calls[j].arg \notin options

\* C34: after a sequence of SET_CLEANING_MODE invocations whose writes all
\* succeeded, on a device that stores what it is written, the reported
\* cleaning mode is the mode selected last, whatever data points 154 and 10
\* held before.
C34_ReportsLastSelected ==
    \A i \in Calls : LastSelection(i) => current_option(data) = calls[i].arg

\* A mopping mode with water level high was selected and then Vacuum Only:
\* data point 10 still holds high and the reported mode is Vacuum Only.
C34_Witness ==
    /\ calls[1].arg = "Vacuum and Mop (Water Level: High)"
    /\ calls[1].out = "returned"
    /\ calls[2].arg = "Vacuum Only"
    /\ LastSelection(2)
    /\ dps("10", "") = "high"
    /\ dps("154", "") = CLEANING_MODES.vacuum.dps154
    /\ current_option(data) = "Vacuum Only"

====
